---- MODULE Spec2Model ----
(***************************************************************************)
(* The Orders page (components/pages/Orders.tsx): the create/edit form,    *)
(* the order view with its balance fields and hold/unhold buttons, saving  *)
(* balances, and delivery finalization, run by browser sessions against    *)
(* one shared backend store.                                               *)
(*                                                                         *)
(* Money is held in hundredths of the currency unit, so that               *)
(* price * quantity * (1 - discount/100) is the integer                    *)
(* price * quantity * (100 - discount) for a whole-unit price.  An order   *)
(* total, a cheque balance and a typed amount are all in hundredths.       *)
(* A JavaScript Record<string, number> is a function whose DOMAIN is the   *)
(* set of its keys; a number | '' field is <<n>> or the empty sequence.    *)
(***************************************************************************)
EXTENDS Integers, Sequences, FiniteSets, TLC

(***************************************************************************)
(* Bounds of the model.                                                    *)
(***************************************************************************)
\* largest numeric suffix of an order id (ORD001, ORD002, ...)
MaxOrders == 2
\* largest warehouse stock and largest allocated quantity of a product
MaxStock == 2
\* commands that write to the store in one run of the whole page
MaxWrites == 3
\* saves in one run on the items of the orders, and in one run on the balances
MaxSaves == 2
\* handleSaveBalances requests of one session that may await their response together
MaxInFlight == 1

(***************************************************************************)
(* The fixed data of a run: sessions, catalog, customers.                  *)
(***************************************************************************)
Sessions == {"s1", "s2"}

\* the products of the catalog (DataContext's products)
Products == {"P1", "P2"}
\* a product id that an order line may carry although the catalog has no such product
Unlisted == "PX"
AllPids == Products \cup {Unlisted}

\* Product.price of the catalog, in whole currency units
CatalogPrice == [p \in Products |-> IF p = "P1" THEN 5 ELSE 2]

Customers == {"c1", "c2"}
\* customers[0]
FirstCustomer == "c1"
\* Customer.discounts, the default per-product discount schedule
CustomerDiscounts == [c \in Customers |->
    IF c = "c1" THEN [p \in {"P1"} |-> 50] ELSE [p \in {} |-> 0]]

Roles == {"Admin", "Manager", "Sales", "Driver"}

\* a value of a number | '' input field
Empty == << >>
Num(n) == << n >>
\* '' counts as 0 wherever the code coerces the field to a number
ToNum(f) == IF f = Empty THEN 0 ELSE f[1]

\* null for an Order | null state variable: no order has the id 0
NoOrder == [id |-> 0]
IsOrder(o) == o.id # 0

\* no DriverAllocation record of the driver for today
NoAlloc == [allocatedItems |-> << >>, salesTotal |-> -1]
IsAlloc(a) == a.salesTotal >= 0

Pending == "Pending"
Delivered == "Delivered"

Max2(a, b) == IF a > b THEN a ELSE b
Min2(a, b) == IF a < b THEN a ELSE b

(***************************************************************************)
(* Sequences of line items.                                                *)
(***************************************************************************)
\* array.findIndex(item => item.productId === productId), 0 for -1
FindIndex(items, p) ==
    IF \E i \in 1..Len(items) : items[i].productId = p
    THEN CHOOSE i \in 1..Len(items) :
            /\ items[i].productId = p
            /\ \A j \in 1..(i - 1) : items[j].productId # p
    ELSE 0

\* array.splice(index, 1)
Splice(items, i) == [j \in 1..(Len(items) - 1) |-> IF j < i THEN items[j] ELSE items[j + 1]]

RECURSIVE SumQuantity(_)
SumQuantity(items) ==
    IF items = << >> THEN 0 ELSE Head(items).quantity + SumQuantity(Tail(items))

PidsOf(items) == {items[i].productId : i \in 1..Len(items)}

(***************************************************************************)
(* State.                                                                  *)
(*   db   the backend store: orders (rows by id), stock (products.stock),  *)
(*        allocations (today's driver_allocations row of each user),       *)
(*        customers (totalspent, outstandingbalance), collections (its     *)
(*        rows, in the order of their insertion).                          *)
(*   ui   per session, the React state of the Orders component and the     *)
(*        DataContext lists it reads: userId and currentUser (the user's   *)
(*        id and role), orders,                                            *)
(*        products, driverAllocations, modalState, currentOrder,           *)
(*        selectedCustomer, orderItems, orderDiscounts, orderItemPrices,   *)
(*        heldItems, orderToDelete, viewingOrder, editableChequeBalance,   *)
(*        editableCreditBalance, editableAmountPaid, inFlight, the         *)
(*        handleSaveBalances requests whose .then callback has not run,    *)
(*        run, the position of a handleConfirmFinalize that is followed    *)
(*        request by request, with its requests not yet answered, and      *)
(*        memo, what the total / inStockItems / heldItemsCount memo keeps  *)
(*        from a render whose dependencies are those of this one.          *)
(*   last the handler that ran last and how it ended (history, read by no  *)
(*        handler).                                                        *)
(*   deducted  per order id, how many runs of handleConfirmFinalize        *)
(*        lowered a product's stock for that order, counted up to 2        *)
(*        (history, read by no handler).                                   *)
(*   budget  how many more commands that write to the store the users of   *)
(*        this run issue (the bound of a run).                             *)
(***************************************************************************)
VARIABLES db, ui, last, deducted, budget

vars == << db, ui, last, deducted, budget >>

OrderIds == 1..MaxOrders

(***************************************************************************)
(* Roles and stock lookup.                                                 *)
(***************************************************************************)
\* canEdit
canEdit(u) == u.currentUser \in {"Admin", "Manager", "Sales", "Driver"}
\* canDelete
canDelete(u) == u.currentUser \in {"Admin", "Manager"}
\* canPrintBill
canPrintBill(u) == u.currentUser \in {"Admin", "Manager", "Driver"}
\* canMarkDelivered
canMarkDelivered(u) == u.currentUser \in {"Admin", "Manager", "Driver"}

\* driverAllocations.find(a => a.driverId === currentUser.id && a.date === todayStr)
TodaysAllocation(u) == u.driverAllocations[u.userId]

\* getDriverAllocatedStock
getDriverAllocatedStock(u, p) ==
    IF u.currentUser # "Driver" THEN 0
    ELSE LET allocation == TodaysAllocation(u)
             k == FindIndex(allocation.allocatedItems, p)
         IN  IF ~IsAlloc(allocation) THEN 0
             ELSE IF k = 0 THEN 0 ELSE allocation.allocatedItems[k].quantity

\* getEffectiveStock, for a product p of the catalog
getEffectiveStock(u, p) ==
    IF u.currentUser = "Driver" THEN getDriverAllocatedStock(u, p) ELSE u.products[p]

(***************************************************************************)
(* The create/edit form.                                                   *)
(***************************************************************************)
\* prev[productId], or absent
EntryIndex(entries, p) == FindIndex(entries, p)

\* { ...prev, [productId]: quantity } on the entries of orderItems: an existing key
\* keeps its place, a new key goes last
SetEntry(entries, p, q) ==
    LET k == EntryIndex(entries, p)
    IN  IF k = 0 THEN Append(entries, [productId |-> p, quantity |-> q])
        ELSE [entries EXCEPT ![k].quantity = q]

\* { ...prev, [key]: value } on a Record
SetKey(rec, p, v) == [k \in DOMAIN rec \cup {p} |-> IF k = p THEN v ELSE rec[k]]

\* the default-discount effect: the selected customer's schedule, for the products
\* of the catalog whose default is truthy
DefaultDiscounts(c) ==
    IF c \notin Customers THEN [p \in {} |-> 0]
    ELSE LET d == CustomerDiscounts[c]
         IN  [p \in {q \in Products \cap DOMAIN d : d[q] # 0} |-> d[p]]

\* what the default-discount effect leaves in orderDiscounts when one of its
\* dependencies changed
DiscountEffect(u) ==
    IF u.modalState = "create"
    THEN [u EXCEPT !.orderDiscounts = DefaultDiscounts(u.selectedCustomer)]
    ELSE u

\* a faulty handleQuantityChange, which holds a held line to the effective stock too
QuantityChangedClampingHeld(u, p, quantity) ==
    IF p \notin Products THEN u
    ELSE LET stock == getEffectiveStock(u, p)
             newQuantity == IF stock > 0
                            THEN Max2(0, Min2(quantity, stock))
                            ELSE Max2(0, quantity)
         IN  [u EXCEPT !.orderItems = SetEntry(u.orderItems, p, newQuantity)]

\* handleQuantityChange: Infinity is the upper limit of a held line and of a line
\* whose product has no effective stock
QuantityChanged(u, p, quantity) ==
    IF p \notin Products THEN u
    ELSE LET isHeld == p \in u.heldItems
             stock == getEffectiveStock(u, p)
             newQuantity == IF stock > 0 /\ ~isHeld
                            THEN Max2(0, Min2(quantity, stock))
                            ELSE Max2(0, quantity)
         IN  [u EXCEPT !.orderItems = SetEntry(u.orderItems, p, newQuantity)]

\* a faulty handleDiscountChange, which stores the discount as typed
DiscountChangedAsTyped(u, p, discount) ==
    [u EXCEPT !.orderDiscounts = SetKey(u.orderDiscounts, p, discount)]

\* handleDiscountChange
DiscountChanged(u, p, discount) ==
    [u EXCEPT !.orderDiscounts = SetKey(u.orderDiscounts, p, Max2(0, Min2(discount, 100)))]

\* handlePriceChange
PriceChanged(u, p, price) ==
    [u EXCEPT !.orderItemPrices = SetKey(u.orderItemPrices, p, Max2(0, price))]

\* toggleHoldItem
HoldToggled(u, p) ==
    [u EXCEPT !.heldItems = IF p \in u.heldItems THEN u.heldItems \ {p}
                            ELSE u.heldItems \cup {p}]

\* orderItemPrices[productId] ?? product.price
FormPrice(u, p) == IF p \in DOMAIN u.orderItemPrices THEN u.orderItemPrices[p] ELSE CatalogPrice[p]
\* orderDiscounts[productId] || 0
FormDiscount(u, p) == IF p \in DOMAIN u.orderDiscounts THEN u.orderDiscounts[p] ELSE 0

\* a line of the form is put aside: isHeld || isOutOfStock
FormLineHeld(u, p) == p \in u.heldItems \/ getEffectiveStock(u, p) = 0

\* a faulty reducer, which takes a line for held only when its id is in heldItems and
\* so counts the line of a product without effective stock into the total
RECURSIVE AggregateFromHeldOnly(_, _, _)
AggregateFromHeldOnly(u, k, acc) ==
    IF k > Len(u.orderItems) THEN acc
    ELSE LET productId == u.orderItems[k].productId
             quantity == u.orderItems[k].quantity
         IN  IF productId \in Products /\ quantity > 0
             THEN IF productId \in u.heldItems
                  THEN AggregateFromHeldOnly(u, k + 1,
                          [acc EXCEPT !.heldItemsCount = @ + quantity])
                  ELSE AggregateFromHeldOnly(u, k + 1,
                          [acc EXCEPT
                             !.total = @ + FormPrice(u, productId)
                                            * (100 - FormDiscount(u, productId)) * quantity,
                             !.inStockItems = @ + quantity])
             ELSE AggregateFromHeldOnly(u, k + 1, acc)

\* the reducer of the total / inStockItems / heldItemsCount memo, on the entries
\* of orderItems from the k-th on
RECURSIVE AggregateFrom(_, _, _)
AggregateFrom(u, k, acc) ==
    IF k > Len(u.orderItems) THEN acc
    ELSE LET productId == u.orderItems[k].productId
             quantity == u.orderItems[k].quantity
         IN  IF productId \in Products /\ quantity > 0
             THEN IF FormLineHeld(u, productId)
                  THEN AggregateFrom(u, k + 1,
                          [acc EXCEPT !.heldItemsCount = @ + quantity])
                  ELSE AggregateFrom(u, k + 1,
                          [acc EXCEPT
                             !.total = @ + FormPrice(u, productId)
                                            * (100 - FormDiscount(u, productId)) * quantity,
                             !.inStockItems = @ + quantity])
             ELSE AggregateFrom(u, k + 1, acc)

\* the value the reducer of the memo computes in this render
Aggregate(u) == AggregateFrom(u, 1, [total |-> 0, inStockItems |-> 0, heldItemsCount |-> 0])

\* the dependencies of the memo: [orderItems, orderDiscounts, orderItemPrices,
\* heldItems, products]
Deps(u) ==
    << u.orderItems, u.orderDiscounts, u.orderItemPrices, u.heldItems, u.products >>

\* nothing is kept: the dependencies were set since the memo was last computed
NoMemo ==
    [kept |-> FALSE, deps |-> << >>,
     value |-> [total |-> 0, inStockItems |-> 0, heldItemsCount |-> 0]]

\* const { total, inStockItems, heldItemsCount } = useMemo(...): the value kept
\* while no dependency was set, whatever driverAllocations has become; the value
\* computed in this render otherwise
Memo(u) ==
    IF u.memo.kept /\ u.memo.deps = Deps(u) THEN u.memo.value ELSE Aggregate(u)

\* what the memo keeps when a render follows in which no dependency was set: the
\* value it has in this render
Kept(u) == [kept |-> TRUE, deps |-> Deps(u), value |-> Memo(u)]

\* a faulty split, which leaves a held line among the active items as well
RECURSIVE SplitFromKeepingHeld(_, _, _)
SplitFromKeepingHeld(u, k, acc) ==
    IF k > Len(u.orderItems) THEN acc
    ELSE LET productId == u.orderItems[k].productId
             quantity == u.orderItems[k].quantity
             item == [productId |-> productId, quantity |-> quantity,
                      price |-> FormPrice(u, productId),
                      discount |-> FormDiscount(u, productId)]
         IN  IF quantity > 0 /\ productId \in Products
             THEN SplitFromKeepingHeld(u, k + 1,
                     [acc EXCEPT
                        !.active = Append(@, item),
                        !.backordered = IF FormLineHeld(u, productId)
                                        THEN Append(@, [item EXCEPT !.discount = 0])
                                        ELSE @])
             ELSE SplitFromKeepingHeld(u, k + 1, acc)

\* handleSaveOrder's newOrderItems and newBackorderedItems, from the k-th entry on;
\* a backordered item is written without a discount, which every reader takes as 0
RECURSIVE SplitFrom(_, _, _)
SplitFrom(u, k, acc) ==
    IF k > Len(u.orderItems) THEN acc
    ELSE LET productId == u.orderItems[k].productId
             quantity == u.orderItems[k].quantity
         IN  IF quantity > 0 /\ productId \in Products
             THEN IF FormLineHeld(u, productId)
                  THEN SplitFrom(u, k + 1,
                          [acc EXCEPT !.backordered = Append(@,
                              [productId |-> productId, quantity |-> quantity,
                               price |-> FormPrice(u, productId), discount |-> 0])])
                  ELSE SplitFrom(u, k + 1,
                          [acc EXCEPT !.active = Append(@,
                              [productId |-> productId, quantity |-> quantity,
                               price |-> FormPrice(u, productId),
                               discount |-> FormDiscount(u, productId)])])
             ELSE SplitFrom(u, k + 1, acc)

SplitItems(u) == SplitFrom(u, 1, [active |-> << >>, backordered |-> << >>])

\* allItems.reduce((acc, item) => { acc[item.productId] = item.quantity; ... }, {})
RECURSIVE EntriesOf(_, _)
EntriesOf(items, acc) ==
    IF items = << >> THEN acc
    ELSE EntriesOf(Tail(items), SetEntry(acc, Head(items).productId, Head(items).quantity))

\* the value the last item of p carries in a reduce over items
LastOf(items, p) ==
    items[CHOOSE i \in 1..Len(items) :
            /\ items[i].productId = p
            /\ \A j \in (i + 1)..Len(items) : items[j].productId # p]

\* openCreateModal, and the default-discount effect that runs once modalState is 'create'
CreateOpened(u) ==
    DiscountEffect([u EXCEPT
        !.currentOrder = NoOrder,
        !.selectedCustomer = FirstCustomer,
        !.orderItems = << >>,
        !.orderDiscounts = [p \in {} |-> 0],
        !.orderItemPrices = [p \in Products |-> CatalogPrice[p]],
        !.heldItems = {},
        !.modalState = "create"])

\* openEditModal
EditOpened(u, order) ==
    LET allItems == order.orderItems \o order.backorderedItems
        prices == [p \in PidsOf(allItems) |-> LastOf(allItems, p).price]
    IN  [u EXCEPT
            !.currentOrder = order,
            !.selectedCustomer = order.customerId,
            !.orderItems = EntriesOf(allItems, << >>),
            !.orderDiscounts = [p \in PidsOf(order.orderItems) |->
                                   LastOf(order.orderItems, p).discount],
            !.orderItemPrices = [p \in PidsOf(allItems) \cup Products |->
                                   IF p \in Products /\ (p \notin DOMAIN prices \/ prices[p] = 0)
                                   THEN CatalogPrice[p] ELSE prices[p]],
            !.heldItems = PidsOf(order.backorderedItems),
            !.modalState = "edit"]

\* closeModal.  The form's fields (selectedCustomer, orderItems, orderDiscounts,
\* orderItemPrices, heldItems) keep their values in the component, but nothing reads
\* them while the modal is closed and openCreateModal and openEditModal set every
\* one of them: the model forgets them here.
ModalClosed(u) ==
    [u EXCEPT !.modalState = "closed", !.currentOrder = NoOrder,
              !.selectedCustomer = "", !.orderItems = << >>,
              !.orderDiscounts = [p \in {} |-> 0],
              !.orderItemPrices = [p \in {} |-> 0], !.heldItems = {}]

(***************************************************************************)
(* The order view.                                                         *)
(***************************************************************************)
\* item.price * item.quantity * (1 - discount / 100), in hundredths
Subtotal(item) == item.price * item.quantity * (100 - item.discount)

\* updatedOrder.orderItems.reduce((sum, item) => sum + subtotal, 0)
RECURSIVE ItemsTotal(_)
ItemsTotal(items) ==
    IF items = << >> THEN 0 ELSE Subtotal(Head(items)) + ItemsTotal(Tail(items))

\* openViewModal
ViewOpened(u, order) ==
    LET calculatedAmountPaid == order.total - order.chequeBalance - order.creditBalance
    IN  [u EXCEPT
            !.viewingOrder = order,
            !.editableChequeBalance = Num(order.chequeBalance),
            !.editableCreditBalance = Num(order.creditBalance),
            !.editableAmountPaid = Num(IF calculatedAmountPaid > 0
                                       THEN calculatedAmountPaid ELSE 0)]

\* closeViewModal
ViewClosed(u) == [u EXCEPT !.viewingOrder = NoOrder]

\* newCredit > 0 ? newCredit : 0
CreditOf(total, paid, cheque) ==
    LET newCredit == total - paid - cheque
    IN  IF newCredit > 0 THEN newCredit ELSE 0

\* onChange of the Pending Cheque input; val is Empty for '' and Num(parseFloat(val) || 0)
ChequeChanged(u, val) ==
    IF val = Empty
    THEN [u EXCEPT
            !.editableChequeBalance = Empty,
            !.editableCreditBalance =
                IF u.editableAmountPaid = Empty THEN Empty
                ELSE Num(u.viewingOrder.total - u.editableAmountPaid[1])]
    ELSE [u EXCEPT
            !.editableChequeBalance = val,
            !.editableCreditBalance =
                Num(CreditOf(u.viewingOrder.total, ToNum(u.editableAmountPaid), val[1]))]

\* onChange of the Amount Paid input
AmountPaidChanged(u, val) ==
    IF val = Empty
    THEN [u EXCEPT
            !.editableAmountPaid = Empty,
            !.editableCreditBalance =
                IF u.editableChequeBalance = Empty THEN Empty
                ELSE Num(u.viewingOrder.total - u.editableChequeBalance[1])]
    ELSE [u EXCEPT
            !.editableAmountPaid = val,
            !.editableCreditBalance =
                Num(CreditOf(u.viewingOrder.total, val[1], ToNum(u.editableChequeBalance)))]

\* a faulty hold, which puts the line aside without its discount, as the form does
HoldInViewUndiscounted(order, p) ==
    LET itemIndex == FindIndex(order.orderItems, p)
        orderItems == Splice(order.orderItems, itemIndex)
    IN  [order EXCEPT
            !.orderItems = orderItems,
            !.backorderedItems = Append(@, [order.orderItems[itemIndex] EXCEPT !.discount = 0]),
            !.total = ItemsTotal(orderItems)]

\* a faulty hold, which takes the first line of the active list whatever product was asked
HoldInViewHead(order, p) ==
    LET orderItems == Splice(order.orderItems, 1)
    IN  [order EXCEPT
            !.orderItems = orderItems,
            !.backorderedItems = Append(@, order.orderItems[1]),
            !.total = ItemsTotal(orderItems)]

\* a faulty hold, which leaves the order's total as it was
HoldInViewStaleTotal(order, p) ==
    LET itemIndex == FindIndex(order.orderItems, p)
    IN  [order EXCEPT
            !.orderItems = Splice(order.orderItems, itemIndex),
            !.backorderedItems = Append(@, order.orderItems[itemIndex])]

\* the order handleToggleHoldInView ends with in updatedOrder after action 'hold'
HoldInView(order, p) ==
    LET itemIndex == FindIndex(order.orderItems, p)
        orderItems == Splice(order.orderItems, itemIndex)
    IN  [order EXCEPT
            !.orderItems = orderItems,
            !.backorderedItems = Append(@, order.orderItems[itemIndex]),
            !.total = ItemsTotal(orderItems)]

\* the order handleToggleHoldInView ends with in updatedOrder after action 'unhold'
UnholdInView(order, p) ==
    LET itemIndex == FindIndex(order.backorderedItems, p)
        orderItems == Append(order.orderItems, order.backorderedItems[itemIndex])
    IN  [order EXCEPT
            !.backorderedItems = Splice(order.backorderedItems, itemIndex),
            !.orderItems = orderItems,
            !.total = ItemsTotal(orderItems)]

\* a faulty early return, which lets a line of a product without effective stock go
\* back to the active list
ToggleReturnsEarlyUnstocked(u, p, action) ==
    IF action = "hold"
    THEN FindIndex(u.viewingOrder.orderItems, p) = 0
    ELSE \/ p \notin Products
         \/ FindIndex(u.viewingOrder.backorderedItems, p) = 0

\* whether handleToggleHoldInView returns early, before any setState
ToggleReturnsEarly(u, p, action) ==
    IF action = "hold"
    THEN FindIndex(u.viewingOrder.orderItems, p) = 0
    ELSE \/ p \notin Products
         \/ getEffectiveStock(u, p) = 0
         \/ FindIndex(u.viewingOrder.backorderedItems, p) = 0

\* setOrders(prevOrders => prevOrders.map(o => o.id === updatedOrder.id ? updatedOrder : o))
ReplaceOrder(orders, updatedOrder) ==
    [id \in DOMAIN orders |-> IF id = updatedOrder.id THEN updatedOrder ELSE orders[id]]

\* handleToggleHoldInView, with viewingOrder set
HoldToggledInView(u, p, action) ==
    IF ToggleReturnsEarly(u, p, action) THEN u
    ELSE LET updatedOrder == IF action = "hold" THEN HoldInView(u.viewingOrder, p)
                             ELSE UnholdInView(u.viewingOrder, p)
         IN  [u EXCEPT !.viewingOrder = updatedOrder,
                       !.orders = ReplaceOrder(u.orders, updatedOrder)]

(***************************************************************************)
(* The store, and what a session reads back from it.                       *)
(***************************************************************************)
\* fetchOrders: the Order object of an orders row
RowToOrder(row) ==
    [id |-> row.id, customerId |-> row.customerId, status |-> row.status,
     total |-> row.total, orderItems |-> row.orderItems,
     backorderedItems |-> row.backorderedItems,
     chequeBalance |-> row.chequeBalance, creditBalance |-> row.creditBalance]

FetchOrders(d) == [id \in DOMAIN d.orders |-> RowToOrder(d.orders[id])]

\* the row mapping of handleSaveBalances' own refetch
MappedOrder(row) ==
    [id |-> row.id, customerId |-> row.customerId, status |-> row.status,
     total |-> row.total, orderItems |-> row.orderItems,
     backorderedItems |-> << >>,
     chequeBalance |-> row.chequeBalance, creditBalance |-> row.creditBalance]

MappedOrders(d) == [id \in DOMAIN d.orders |-> MappedOrder(d.orders[id])]

\* refreshProducts and refetchData: the DataContext lists are read again from the
\* store (products is set, so the memo keeps nothing), and the default-discount
\* effect sees new products
Refetched(u, d) ==
    DiscountEffect([u EXCEPT !.orders = FetchOrders(d),
                             !.products = d.stock,
                             !.driverAllocations = d.allocations,
                             !.memo = NoMemo])

\* orders.reduce((max, order) => num > max ? num : max, 0), on the numeric suffixes
MaxIdNum(orders) ==
    IF DOMAIN orders = {} THEN 0
    ELSE CHOOSE n \in DOMAIN orders : \A m \in DOMAIN orders : m <= n

\* the row handleSaveOrder inserts in create mode
NewOrderRow(u) ==
    [id |-> MaxIdNum(u.orders) + 1,
     customerId |-> u.selectedCustomer,
     status |-> Pending,
     orderItems |-> SplitItems(u).active,
     backorderedItems |-> SplitItems(u).backordered,
     total |-> Memo(u).total,
     chequeBalance |-> 0, creditBalance |-> 0, sold |-> 0]

\* the row handleSaveOrder's update leaves in edit mode
EditedOrderRow(u, row) ==
    [row EXCEPT
        !.customerId = u.selectedCustomer,
        !.orderItems = SplitItems(u).active,
        !.backorderedItems = SplitItems(u).backordered,
        !.total = Memo(u).total,
        !.status = u.currentOrder.status,
        !.chequeBalance = u.currentOrder.chequeBalance,
        !.creditBalance = u.currentOrder.creditBalance]

\* supabase.from('orders').update(...).eq('id', id): no row, no change
UpdateOrder(d, id, row) ==
    IF id \in DOMAIN d.orders THEN [d EXCEPT !.orders[id] = row] ELSE d

\* a faulty first check, which looks at the customer only
SaveRejectedCustomerOnly(u) == u.selectedCustomer \notin Customers

\* whether handleSaveOrder returns at its first check
SaveRejected(u) ==
    \/ u.selectedCustomer \notin Customers
    \/ (Memo(u).inStockItems = 0 /\ Memo(u).heldItemsCount = 0)

(***************************************************************************)
(* Saving balances.                                                        *)
(***************************************************************************)
\* a faulty check, which never finds the outstanding balance above the total
OutstandingNeverExceeds(u) == FALSE

\* editableChequeBalance + editableCreditBalance > viewingOrder.total: with a ''
\* operand the sum is the other operand's text, compared as a number
OutstandingExceedsTotal(u) ==
    ToNum(u.editableChequeBalance) + ToNum(u.editableCreditBalance) > u.viewingOrder.total

\* updatedOrder of handleSaveBalances; a '' balance is read as 0 by every reader
BalancesOrder(u) ==
    [u.viewingOrder EXCEPT !.chequeBalance = ToNum(u.editableChequeBalance),
                           !.creditBalance = ToNum(u.editableCreditBalance)]

\* supabase.from('orders').update({ chequebalance, creditbalance }).eq('id', id)
BalancesWritten(d, order) ==
    IF order.id \in DOMAIN d.orders
    THEN [d EXCEPT !.orders[order.id].chequeBalance = order.chequeBalance,
                   !.orders[order.id].creditBalance = order.creditBalance]
    ELSE d

\* collectionRecords: a pending record of the cheque balance when it is above 0, then
\* one of the credit balance when it is above 0
CollectionRecords(order) ==
    (IF order.chequeBalance > 0
     THEN << [orderId |-> order.id, collectionType |-> "cheque",
              amount |-> order.chequeBalance, status |-> "pending"] >>
     ELSE << >>)
    \o (IF order.creditBalance > 0
        THEN << [orderId |-> order.id, collectionType |-> "credit",
                 amount |-> order.creditBalance, status |-> "pending"] >>
        ELSE << >>)

\* the place in collections of the row with the key (order_id, collection_type) of
\* record, 0 when there is none
RECURSIVE ConflictFrom(_, _, _)
ConflictFrom(collections, record, k) ==
    IF k > Len(collections) THEN 0
    ELSE IF /\ collections[k].orderId = record.orderId
            /\ collections[k].collectionType = record.collectionType
         THEN k
         ELSE ConflictFrom(collections, record, k + 1)

\* a faulty write of the records, which inserts each of them
RECURSIVE CollectionsInserted(_, _)
CollectionsInserted(collections, records) ==
    IF records = << >> THEN collections
    ELSE CollectionsInserted(Append(collections, Head(records)), Tail(records))

\* upsert(collectionRecords, { onConflict: 'order_id,collection_type' }): a record
\* replaces the row that has its key, and is inserted when no row has it
RECURSIVE CollectionsUpserted(_, _)
CollectionsUpserted(collections, records) ==
    IF records = << >> THEN collections
    ELSE LET record == Head(records)
             k == ConflictFrom(collections, record, 1)
         IN  CollectionsUpserted(IF k = 0 THEN Append(collections, record)
                                 ELSE [collections EXCEPT ![k] = record],
                                 Tail(records))

(***************************************************************************)
(* Finalization.                                                           *)
(***************************************************************************)
\* a faulty stock check loop, which passes a line whose product the catalog lacks
RECURSIVE FirstFailingFromListed(_, _, _)
FirstFailingFromListed(u, items, k) ==
    IF k > Len(items) THEN 0
    ELSE IF items[k].productId \in Products
            /\ getEffectiveStock(u, items[k].productId) < items[k].quantity
         THEN k
         ELSE FirstFailingFromListed(u, items, k + 1)

\* the stock check loop: the index of the line it breaks at, 0 when it runs through
RECURSIVE FirstFailingFrom(_, _, _)
FirstFailingFrom(u, items, k) ==
    IF k > Len(items) THEN 0
    ELSE IF items[k].productId \notin Products
            \/ getEffectiveStock(u, items[k].productId) < items[k].quantity
         THEN k
         ELSE FirstFailingFrom(u, items, k + 1)

FirstFailing(u, items) == FirstFailingFrom(u, items, 1)

\* a faulty update of the allocation, which keeps the items left with no quantity
RECURSIVE AllocatedItemsKeepingEmpty(_, _)
AllocatedItemsKeepingEmpty(allocatedItems, deliveredItems) ==
    IF allocatedItems = << >> THEN << >>
    ELSE LET item == Head(allocatedItems)
             k == FindIndex(deliveredItems, item.productId)
             newQty == item.quantity - deliveredItems[k].quantity
             quantity == IF k = 0 THEN item.quantity
                         ELSE IF newQty > 0 THEN newQty ELSE 0
         IN  << [item EXCEPT !.quantity = quantity] >>
                 \o AllocatedItemsKeepingEmpty(Tail(allocatedItems), deliveredItems)

\* updatedAllocatedItems: the allocation's items less the delivered quantities, the
\* items left with no quantity filtered out
RECURSIVE AllocatedItemsAfter(_, _)
AllocatedItemsAfter(allocatedItems, deliveredItems) ==
    IF allocatedItems = << >> THEN << >>
    ELSE LET item == Head(allocatedItems)
             k == FindIndex(deliveredItems, item.productId)
             newQty == item.quantity - deliveredItems[k].quantity
             quantity == IF k = 0 THEN item.quantity
                         ELSE IF newQty > 0 THEN newQty ELSE 0
             rest == AllocatedItemsAfter(Tail(allocatedItems), deliveredItems)
         IN  IF quantity > 0 THEN << [item EXCEPT !.quantity = quantity] >> \o rest
             ELSE rest

\* whether handleConfirmFinalize updates a driver allocation
UpdatesAllocation(u) == u.currentUser = "Driver" /\ IsAlloc(TodaysAllocation(u))

\* the allocation handleConfirmFinalize writes and sets
AllocationAfter(u, targetOrder) ==
    [allocatedItems |-> AllocatedItemsAfter(TodaysAllocation(u).allocatedItems,
                                            targetOrder.orderItems),
     salesTotal |-> TodaysAllocation(u).salesTotal + SumQuantity(targetOrder.orderItems)]

\* a faulty inventory loop, which lowers the stock of every listed product without
\* comparing it with the quantity
RECURSIVE StockDeductedUnchecked(_, _, _, _)
StockDeductedUnchecked(stock, products, items, k) ==
    IF k > Len(items) THEN stock
    ELSE LET p == items[k].productId
         IN  IF p \in Products
             THEN StockDeductedUnchecked([stock EXCEPT ![p] = products[p] - items[k].quantity],
                                         products, items, k + 1)
             ELSE StockDeductedUnchecked(stock, products, items, k + 1)

\* a faulty inventory loop, which lowers the stock the store holds rather than the
\* stock of the session's products list
RECURSIVE StockDeductedFromStore(_, _, _, _)
StockDeductedFromStore(stock, products, items, k) ==
    IF k > Len(items) THEN stock
    ELSE LET p == items[k].productId
         IN  IF p \in Products /\ products[p] >= items[k].quantity
             THEN StockDeductedFromStore([stock EXCEPT ![p] = stock[p] - items[k].quantity],
                                         products, items, k + 1)
             ELSE StockDeductedFromStore(stock, products, items, k + 1)

\* the inventory loop: one update of products.stock per line whose product the
\* session's products list holds with stock >= quantity, from the k-th line on
RECURSIVE StockDeducted(_, _, _, _)
StockDeducted(stock, products, items, k) ==
    IF k > Len(items) THEN stock
    ELSE LET p == items[k].productId
         IN  IF p \in Products /\ products[p] >= items[k].quantity
             THEN StockDeducted([stock EXCEPT ![p] = products[p] - items[k].quantity],
                                products, items, k + 1)
             ELSE StockDeducted(stock, products, items, k + 1)

\* the inventory block, run only for an order not already Delivered
StockAfter(stock, u, targetOrder) ==
    IF targetOrder.status # Delivered
    THEN StockDeducted(stock, u.products, targetOrder.orderItems, 1)
    ELSE stock

OrderOutstanding(o) == o.chequeBalance + o.creditBalance

\* customerOrders.reduce((sum, o) => sum + (o.total || 0), 0)
RECURSIVE SumTotal(_, _)
SumTotal(S, orders) ==
    IF S = {} THEN 0
    ELSE LET id == CHOOSE x \in S : TRUE
         IN  orders[id].total + SumTotal(S \ {id}, orders)

\* customerOrders.reduce((sum, o) => sum + (chequeBalance + creditBalance), 0)
RECURSIVE SumOutstanding(_, _)
SumOutstanding(S, orders) ==
    IF S = {} THEN 0
    ELSE LET id == CHOOSE x \in S : TRUE
         IN  OrderOutstanding(orders[id]) + SumOutstanding(S \ {id}, orders)

\* totalSpent and outstandingBalance over the customer's Delivered orders of the
\* session's orders list, updatedOrder pushed when the list has no such order
CustomerTotals(orders, updatedOrder) ==
    LET delivered == {id \in DOMAIN orders :
                         /\ orders[id].customerId = updatedOrder.customerId
                         /\ orders[id].status = Delivered}
        pushed == updatedOrder.id \notin delivered
    IN  [totalSpent |-> SumTotal(delivered, orders)
                           + (IF pushed THEN updatedOrder.total ELSE 0),
         outstandingBalance |-> SumOutstanding(delivered, orders)
                           + (IF pushed THEN OrderOutstanding(updatedOrder) ELSE 0)]

\* every write of a handleConfirmFinalize that passed its checks
FinalizeWrites(d, u, targetOrder) ==
    LET id == targetOrder.id
        updatedOrder == [targetOrder EXCEPT !.status = Delivered]
        orders1 == IF id \in DOMAIN d.orders
                   THEN [d.orders EXCEPT ![id].status = Delivered,
                                         ![id].sold = SumQuantity(targetOrder.orderItems)]
                   ELSE d.orders
        allocations1 == IF UpdatesAllocation(u)
                        THEN [d.allocations EXCEPT ![u.userId] = AllocationAfter(u, targetOrder)]
                        ELSE d.allocations
        customers1 == IF targetOrder.customerId \in Customers
                      THEN [d.customers EXCEPT ![targetOrder.customerId] =
                                CustomerTotals(u.orders, updatedOrder)]
                      ELSE d.customers
    IN  [d EXCEPT !.orders = orders1,
                  !.allocations = allocations1,
                  !.stock = StockAfter(d.stock, u, targetOrder),
                  !.customers = customers1]

\* the session state a handleConfirmFinalize that passed its checks ends with, the
\* store being d once its writes are done
FinalizeSets(u, targetOrder, d) ==
    LET updatedOrder == [targetOrder EXCEPT !.status = Delivered]
        u1 == [u EXCEPT
                 !.driverAllocations =
                     IF UpdatesAllocation(u)
                     THEN [@ EXCEPT ![u.userId] = AllocationAfter(u, targetOrder)]
                     ELSE @,
                 !.orders = ReplaceOrder(@, updatedOrder),
                 !.viewingOrder = updatedOrder]
    IN  IF targetOrder.status # Delivered THEN Refetched(u1, d) ELSE u1

(***************************************************************************)
(* Finalization, request by request.  run is the position of the handler:  *)
(* at names the awaited request that is not yet answered ("status",        *)
(* "allocation", "stock" with the index of its line, "refresh"; "idle"     *)
(* when the handler is not running), pending holds the requests of the two *)
(* un-awaited blocks that are not yet answered, targetOrder and closure    *)
(* are what the handler reads of the render it was called in.              *)
(***************************************************************************)
NoRun ==
    [at |-> "idle", targetOrder |-> NoOrder, closure |-> << >>, line |-> 0,
     pending |-> {}, lowered |-> FALSE]

\* currentUser, orders, products and driverAllocations of the render in which
\* handleConfirmFinalize was called
Closure(u) ==
    [currentUser |-> u.currentUser, userId |-> u.userId, orders |-> u.orders,
     products |-> u.products, driverAllocations |-> u.driverAllocations]

\* a faulty inventory loop, which sends an update for every line of a listed product
\* without comparing the stock with the quantity
RECURSIVE NextLineUnchecked(_, _, _)
NextLineUnchecked(products, items, k) ==
    IF k > Len(items) THEN 0
    ELSE IF items[k].productId \in Products
         THEN k
         ELSE NextLineUnchecked(products, items, k + 1)

\* the first line, from the k-th on, for which the inventory loop sends an update;
\* 0 when there is none
RECURSIVE NextLine(_, _, _)
NextLine(products, items, k) ==
    IF k > Len(items) THEN 0
    ELSE IF items[k].productId \in Products
            /\ products[items[k].productId] >= items[k].quantity
         THEN k
         ELSE NextLine(products, items, k + 1)

\* supabase.from('orders').update({ status: Delivered, sold: soldQty }).eq('id', id)
StatusWritten(d, targetOrder) ==
    IF targetOrder.id \in DOMAIN d.orders
    THEN [d EXCEPT !.orders[targetOrder.id].status = Delivered,
                   !.orders[targetOrder.id].sold = SumQuantity(targetOrder.orderItems)]
    ELSE d

\* supabase.from('driver_allocations').update({ sales_total, allocated_items })
AllocationWritten(d, closure, targetOrder) ==
    [d EXCEPT !.allocations[closure.userId] = AllocationAfter(closure, targetOrder)]

\* supabase.from('products').update({ stock: currentProduct.stock - item.quantity })
StockLineWritten(d, closure, item) ==
    [d EXCEPT !.stock[item.productId] = closure.products[item.productId] - item.quantity]

\* supabase.from('orders').update({ status: Delivered }), of the first un-awaited block
StatusRewritten(d, targetOrder) ==
    IF targetOrder.id \in DOMAIN d.orders
    THEN [d EXCEPT !.orders[targetOrder.id].status = Delivered]
    ELSE d

\* supabase.from('customers').update({ totalspent, outstandingbalance }), of the
\* second un-awaited block
CustomersWritten(d, closure, targetOrder) ==
    IF targetOrder.customerId \in Customers
    THEN [d EXCEPT !.customers[targetOrder.customerId] =
              CustomerTotals(closure.orders, [targetOrder EXCEPT !.status = Delivered])]
    ELSE d

\* the position after the requests before the k-th line of the inventory loop are
\* answered: at the update of the next line that has one; after the loop, both
\* un-awaited blocks have sent their request and the handler awaits the refresh
AtStock(run, k) ==
    LET n == NextLine(run.closure.products, run.targetOrder.orderItems, k)
    IN  IF n # 0 THEN [run EXCEPT !.at = "stock", !.line = n]
        ELSE [run EXCEPT !.at = "refresh", !.line = 0,
                         !.pending = {"status again", "customers"}]

\* the session at position run: setOrders and setViewingOrder are called between the
\* two un-awaited blocks, and for a driver setProducts after them, with a new list
\* of the same products
Proceeds(u, run) ==
    LET updatedOrder == [run.targetOrder EXCEPT !.status = Delivered]
    IN  IF run.at = "refresh"
        THEN [u EXCEPT !.run = run,
                       !.orders = ReplaceOrder(@, updatedOrder),
                       !.viewingOrder = updatedOrder,
                       !.memo = IF run.closure.currentUser = "Driver" THEN NoMemo ELSE @]
        ELSE [u EXCEPT !.run = run]

\* the position once the handler has returned, or an un-awaited request is answered:
\* nothing is left of the run when no request is pending
Settled(run) ==
    IF run.at = "idle" /\ run.pending = {} THEN NoRun ELSE run

(***************************************************************************)
(* Handlers.  Each action is one handler of the component run by session   *)
(* s; Did records it in last.                                              *)
(***************************************************************************)
Did(s, op, result, arg) == [session |-> s, op |-> op, result |-> result, arg |-> arg]
\* last after a handler that only opens or closes a modal
NoHistory == Did("", "", "", "")

\* no Modal is open over the page: the page's own buttons can be clicked
NoModal(u) ==
    u.modalState = "closed" /\ ~IsOrder(u.viewingOrder) /\ ~IsOrder(u.orderToDelete)

FormOpen(u) == u.modalState # "closed"

\* onClick={openCreateModal}, shown when canEdit
OpenCreateModal(s) ==
    /\ NoModal(ui[s]) /\ canEdit(ui[s])
    /\ ui' = [ui EXCEPT ![s] = CreateOpened(@)]
    /\ last' = NoHistory
    /\ UNCHANGED << db, deducted, budget >>

\* onClick={() => openEditModal(order)}, shown when canEdit
OpenEditModal(s, id) ==
    /\ NoModal(ui[s]) /\ canEdit(ui[s])
    /\ id \in DOMAIN ui[s].orders
    /\ ui' = [ui EXCEPT ![s] = EditOpened(@, ui[s].orders[id])]
    /\ last' = NoHistory
    /\ UNCHANGED << db, deducted, budget >>

\* onClose={closeModal} and the form's Cancel button
CloseModal(s) ==
    /\ FormOpen(ui[s])
    /\ ui' = [ui EXCEPT ![s] = ModalClosed(@)]
    /\ last' = NoHistory
    /\ UNCHANGED << db, deducted, budget >>

\* the customer dropdown's onClick: setSelectedCustomer, then the default-discount effect
SelectCustomer(s, c) ==
    /\ FormOpen(ui[s])
    /\ ui' = [ui EXCEPT ![s] = DiscountEffect([@ EXCEPT !.selectedCustomer = c])]
    /\ last' = NoHistory
    /\ UNCHANGED << db, deducted, budget >>

\* the quantity input's onChange
HandleQuantityChange(s, p, quantity) ==
    /\ FormOpen(ui[s])
    /\ ui' = [ui EXCEPT ![s] = QuantityChanged(@, p, quantity)]
    /\ last' = NoHistory
    /\ UNCHANGED << db, deducted, budget >>

\* the discount input's onChange; the input is disabled on a held or out-of-stock line
HandleDiscountChange(s, p, discount) ==
    /\ FormOpen(ui[s])
    /\ ~FormLineHeld(ui[s], p)
    /\ ui' = [ui EXCEPT ![s] = DiscountChanged(@, p, discount)]
    /\ last' = NoHistory
    /\ UNCHANGED << db, deducted, budget >>

\* the price input's onChange; the input is disabled on a held or out-of-stock line
HandlePriceChange(s, p, price) ==
    /\ FormOpen(ui[s])
    /\ ~FormLineHeld(ui[s], p)
    /\ ui' = [ui EXCEPT ![s] = PriceChanged(@, p, price)]
    /\ last' = NoHistory
    /\ UNCHANGED << db, deducted, budget >>

\* onClick={() => toggleHoldItem(product.id)}
ToggleHoldItem(s, p) ==
    /\ FormOpen(ui[s])
    /\ ui' = [ui EXCEPT ![s] = HoldToggled(@, p)]
    /\ last' = NoHistory
    /\ UNCHANGED << db, deducted, budget >>

\* handleSaveOrder.  An insert under an id the store already holds is refused by the
\* store (orders are keyed by id) and reported; the update of a row that is gone
\* changes nothing and is not an error.
HandleSaveOrder(s) ==
    LET u == ui[s]
        newOrder == NewOrderRow(u)
        id == u.currentOrder.id
        d1 == IF u.modalState = "create"
              THEN [db EXCEPT !.orders =
                       [k \in DOMAIN db.orders \cup {newOrder.id} |->
                           IF k = newOrder.id THEN newOrder ELSE db.orders[k]]]
              ELSE IF id \in DOMAIN db.orders
                   THEN UpdateOrder(db, id, EditedOrderRow(u, db.orders[id]))
                   ELSE db
    IN  /\ FormOpen(u)
        /\ u.modalState = "create" /\ ~SaveRejected(u) => newOrder.id <= MaxOrders
        /\ IF SaveRejected(u)
           THEN /\ last' = Did(s, "handleSaveOrder", "rejected", "")
                /\ UNCHANGED << db, ui, budget >>
           ELSE IF u.modalState = "create" /\ newOrder.orderItems = << >>
           THEN /\ last' = Did(s, "handleSaveOrder", "no item", "")
                /\ UNCHANGED << db, ui, budget >>
           ELSE IF u.modalState = "create" /\ newOrder.id \in DOMAIN db.orders
           THEN /\ last' = Did(s, "handleSaveOrder", "error", "")
                /\ UNCHANGED << db, ui, budget >>
           ELSE /\ budget > 0
                /\ db' = d1
                /\ ui' = [ui EXCEPT ![s] = ModalClosed([@ EXCEPT !.orders = FetchOrders(d1)])]
                /\ last' = Did(s, "handleSaveOrder", u.modalState, "")
                /\ budget' = budget - 1
        /\ UNCHANGED deducted

\* onClick={() => openDeleteModal(order)}, shown when canEdit and canDelete
OpenDeleteModal(s, id) ==
    /\ NoModal(ui[s]) /\ canEdit(ui[s]) /\ canDelete(ui[s])
    /\ id \in DOMAIN ui[s].orders
    /\ ui' = [ui EXCEPT ![s].orderToDelete = ui[s].orders[id]]
    /\ last' = NoHistory
    /\ UNCHANGED << db, deducted, budget >>

\* closeDeleteModal
CloseDeleteModal(s) ==
    /\ IsOrder(ui[s].orderToDelete)
    /\ ui' = [ui EXCEPT ![s].orderToDelete = NoOrder]
    /\ last' = NoHistory
    /\ UNCHANGED << db, deducted, budget >>

\* handleDeleteOrder
HandleDeleteOrder(s) ==
    LET id == ui[s].orderToDelete.id
        d1 == [db EXCEPT !.orders = [k \in DOMAIN db.orders \ {id} |-> db.orders[k]]]
    IN  /\ IsOrder(ui[s].orderToDelete)
        /\ budget > 0
        /\ db' = d1
        /\ ui' = [ui EXCEPT ![s].orders = FetchOrders(d1), ![s].orderToDelete = NoOrder]
        /\ last' = Did(s, "handleDeleteOrder", "done", "")
        /\ budget' = budget - 1
        /\ UNCHANGED deducted

\* onClick={() => openViewModal(order)}
OpenViewModal(s, id) ==
    /\ NoModal(ui[s])
    /\ id \in DOMAIN ui[s].orders
    /\ ui' = [ui EXCEPT ![s] = ViewOpened(@, ui[s].orders[id])]
    /\ last' = NoHistory
    /\ UNCHANGED << db, deducted, budget >>

\* onClose={closeViewModal} and the view's Close button
CloseViewModal(s) ==
    /\ IsOrder(ui[s].viewingOrder)
    /\ ui' = [ui EXCEPT ![s] = ViewClosed(@)]
    /\ last' = NoHistory
    /\ UNCHANGED << db, deducted, budget >>

\* the Pending Cheque input's onChange
ChequeChange(s, val) ==
    /\ IsOrder(ui[s].viewingOrder) /\ canEdit(ui[s])
    /\ ui' = [ui EXCEPT ![s] = ChequeChanged(@, val)]
    /\ last' = Did(s, "chequeBalance", "changed", "")
    /\ UNCHANGED << db, deducted, budget >>

\* the Amount Paid input's onChange
AmountPaidChange(s, val) ==
    /\ IsOrder(ui[s].viewingOrder) /\ canEdit(ui[s])
    /\ ui' = [ui EXCEPT ![s] = AmountPaidChanged(@, val)]
    /\ last' = Did(s, "amountPaid", "changed", "")
    /\ UNCHANGED << db, deducted, budget >>

\* handleToggleHoldInView
HandleToggleHoldInView(s, p, action) ==
    /\ IsOrder(ui[s].viewingOrder)
    /\ ui' = [ui EXCEPT ![s] = HoldToggledInView(@, p, action)]
    /\ last' = Did(s, action,
                   IF ToggleReturnsEarly(ui[s], p, action) THEN "returned" ELSE "moved", "")
    /\ UNCHANGED << db, deducted, budget >>

\* handleSaveBalances up to the request it sends: the update of the balances reaches
\* the store, its .then callback is left to run.  confirmed is the answer to
\* window.confirm, asked only when the outstanding balance exceeds the total.
HandleSaveBalances(s, confirmed) ==
    LET u == ui[s]
        updatedOrder == BalancesOrder(u)
    IN  /\ IsOrder(u.viewingOrder) /\ canEdit(u)
        /\ Len(u.inFlight) < MaxInFlight
        /\ IF OutstandingExceedsTotal(u) /\ ~confirmed
           THEN /\ last' = Did(s, "handleSaveBalances", "declined", "")
                /\ UNCHANGED << db, ui, budget >>
           ELSE /\ budget > 0
                /\ db' = BalancesWritten(db, updatedOrder)
                /\ ui' = [ui EXCEPT ![s].inFlight = Append(@, updatedOrder)]
                /\ last' = Did(s, "handleSaveBalances",
                               IF OutstandingExceedsTotal(u) THEN "confirmed" ELSE "sent", "")
                /\ budget' = budget - 1
        /\ UNCHANGED deducted

\* the .then callback of handleSaveBalances, on a response without error: the
\* collections upsert, the refetch of the orders, setOrders and setViewingOrder
SaveBalancesThen(s) ==
    LET u == ui[s]
        updatedOrder == Head(u.inFlight)
    IN  /\ u.inFlight # << >>
        /\ db' = [db EXCEPT !.collections =
                            CollectionsUpserted(@, CollectionRecords(updatedOrder))]
        /\ ui' = [ui EXCEPT ![s].inFlight = Tail(@),
                             ![s].orders = MappedOrders(db),
                             ![s].viewingOrder = updatedOrder]
        /\ last' = Did(s, "handleSaveBalances.then", "done", "")
        /\ UNCHANGED << deducted, budget >>

\* product?.name || 'an item' of the insufficient-stock alert
AlertName(p) == IF p \in Products THEN p ELSE "an item"

\* handleConfirmFinalize(orderToProcess), as handleDownloadBill calls it
ConfirmFinalize(s, targetOrder) ==
    LET u == ui[s]
        items == targetOrder.orderItems
        failing == FirstFailing(u, items)
        d1 == FinalizeWrites(db, u, targetOrder)
    IN  IF Len(items) = 0
        THEN /\ last' = Did(s, "handleConfirmFinalize", "no items", "")
             /\ UNCHANGED << db, ui, deducted, budget >>
        ELSE IF failing # 0
        THEN /\ last' = Did(s, "handleConfirmFinalize", "insufficient stock",
                            AlertName(items[failing].productId))
             /\ UNCHANGED << db, ui, deducted, budget >>
        ELSE /\ budget > 0
             /\ db' = d1
             /\ ui' = [ui EXCEPT ![s] = FinalizeSets(u, targetOrder, d1)]
             /\ last' = Did(s, "handleConfirmFinalize", "delivered", "")
             /\ budget' = budget - 1
             /\ deducted' = IF (\E p \in Products : d1.stock[p] < db.stock[p])
                                /\ targetOrder.id \in OrderIds
                             THEN [deducted EXCEPT ![targetOrder.id] = Min2(@ + 1, 2)]
                             ELSE deducted

\* handleDownloadBill, the view's Download Bill button, shown when canPrintBill;
\* confirmed is the answer to confirm()
HandleDownloadBill(s, confirmed) ==
    LET u == ui[s]
    IN  /\ IsOrder(u.viewingOrder) /\ canPrintBill(u)
        /\ IF u.viewingOrder.customerId \notin Customers
           THEN /\ last' = Did(s, "handleDownloadBill", "customer missing", "")
                /\ UNCHANGED << db, ui, deducted, budget >>
           ELSE IF u.viewingOrder.status # Delivered /\ canMarkDelivered(u)
           THEN IF confirmed
                THEN ConfirmFinalize(s, u.viewingOrder)
                ELSE /\ last' = Did(s, "handleDownloadBill", "declined", "")
                     /\ UNCHANGED << db, ui, deducted, budget >>
           ELSE /\ last' = Did(s, "handleDownloadBill", "bill", "")
                /\ UNCHANGED << db, ui, deducted, budget >>

(***************************************************************************)
(* handleConfirmFinalize followed request by request: the handler sends a  *)
(* request, and goes on when the store has answered it; ok says whether    *)
(* the store did the write.  No answer is looked at by the handler.        *)
(***************************************************************************)
\* Download Bill, confirmed, on a viewed order that passes handleConfirmFinalize's
\* checks: the handler sends the update of status and sold
RequestStatus(s) ==
    LET u == ui[s]
    IN  /\ IsOrder(u.viewingOrder) /\ canPrintBill(u)
        /\ u.viewingOrder.customerId \in Customers
        /\ u.viewingOrder.status # Delivered /\ canMarkDelivered(u)
        /\ Len(u.viewingOrder.orderItems) > 0
        /\ FirstFailing(u, u.viewingOrder.orderItems) = 0
        /\ u.run = NoRun
        /\ budget > 0
        /\ ui' = [ui EXCEPT ![s].run = [NoRun EXCEPT !.at = "status",
                                                     !.targetOrder = u.viewingOrder,
                                                     !.closure = Closure(u)]]
        /\ last' = Did(s, "handleConfirmFinalize", "requested", "status")
        /\ budget' = budget - 1
        /\ UNCHANGED << db, deducted >>

\* the update of status and sold is answered: the handler sends the update of the
\* driver's allocation, or enters the inventory loop
StatusAnswered(s, ok) ==
    LET u == ui[s]
        run == u.run
    IN  /\ run.at = "status"
        /\ db' = IF ok THEN StatusWritten(db, run.targetOrder) ELSE db
        /\ ui' = [ui EXCEPT ![s] =
                     IF UpdatesAllocation(run.closure)
                     THEN [u EXCEPT !.run.at = "allocation"]
                     ELSE Proceeds(u, AtStock(run, 1))]
        /\ last' = Did(s, "handleConfirmFinalize", IF ok THEN "written" ELSE "failed", "status")
        /\ UNCHANGED << deducted, budget >>

\* the update of the allocation is answered: setDriverAllocations, which sets no
\* dependency of the memo, then the inventory loop
AllocationAnswered(s, ok) ==
    LET u == ui[s]
        run == u.run
        u1 == [u EXCEPT !.driverAllocations[run.closure.userId] =
                            AllocationAfter(run.closure, run.targetOrder),
                        !.memo = Kept(u)]
    IN  /\ run.at = "allocation"
        /\ db' = IF ok THEN AllocationWritten(db, run.closure, run.targetOrder) ELSE db
        /\ ui' = [ui EXCEPT ![s] = Proceeds(u1, AtStock(run, 1))]
        /\ last' = Did(s, "handleConfirmFinalize", IF ok THEN "written" ELSE "failed",
                       "allocation")
        /\ UNCHANGED << deducted, budget >>

\* the update of a product's stock is answered: the loop goes on to its next update,
\* or ends
StockAnswered(s, ok) ==
    LET u == ui[s]
        run == u.run
        item == run.targetOrder.orderItems[run.line]
        d1 == IF ok THEN StockLineWritten(db, run.closure, item) ELSE db
        lowers == d1.stock[item.productId] < db.stock[item.productId]
                      /\ ~run.lowered /\ run.targetOrder.id \in OrderIds
    IN  /\ run.at = "stock"
        /\ db' = d1
        /\ ui' = [ui EXCEPT ![s] =
                     Proceeds(u, AtStock([run EXCEPT !.lowered = @ \/ lowers], run.line + 1))]
        /\ last' = Did(s, "handleConfirmFinalize", IF ok THEN "written" ELSE "failed", "stock")
        /\ deducted' = IF lowers
                        THEN [deducted EXCEPT ![run.targetOrder.id] = Min2(@ + 1, 2)]
                        ELSE deducted
        /\ UNCHANGED budget

\* refreshProducts and refetchData are answered: the handler returns
RefreshAnswered(s) ==
    LET u == ui[s]
        run == u.run
    IN  /\ run.at = "refresh"
        /\ ui' = [ui EXCEPT ![s] = Refetched([u EXCEPT !.run = Settled([run EXCEPT !.at = "idle"])],
                                             db)]
        /\ last' = Did(s, "handleConfirmFinalize", "delivered", "")
        /\ UNCHANGED << db, deducted, budget >>

\* the request of one of the two un-awaited blocks is answered
UnawaitedAnswered(s, request, ok) ==
    LET u == ui[s]
        run == u.run
    IN  /\ request \in run.pending
        /\ db' = IF ~ok THEN db
                  ELSE IF request = "customers"
                       THEN CustomersWritten(db, run.closure, run.targetOrder)
                       ELSE StatusRewritten(db, run.targetOrder)
        /\ ui' = [ui EXCEPT ![s].run = Settled([run EXCEPT !.pending = @ \ {request}])]
        /\ last' = Did(s, "handleConfirmFinalize", IF ok THEN "written" ELSE "failed", request)
        /\ UNCHANGED << deducted, budget >>

(***************************************************************************)
(* Initial states.                                                         *)
(***************************************************************************)
Line(p, quantity, price, discount) ==
    [productId |-> p, quantity |-> quantity, price |-> price, discount |-> discount]

Row(id, c, status, orderItems, backorderedItems) ==
    [id |-> id, customerId |-> c, status |-> status,
     orderItems |-> orderItems, backorderedItems |-> backorderedItems,
     total |-> ItemsTotal(orderItems), chequeBalance |-> 0, creditBalance |-> 0,
     sold |-> 0]

\* the session state after the component mounted with the store d loaded
Mounted(s, role, d) ==
    [userId |-> s, currentUser |-> role,
     orders |-> FetchOrders(d), products |-> d.stock,
     driverAllocations |-> d.allocations,
     modalState |-> "closed", currentOrder |-> NoOrder, selectedCustomer |-> "",
     orderItems |-> << >>, orderDiscounts |-> [p \in {} |-> 0],
     orderItemPrices |-> [p \in {} |-> 0], heldItems |-> {},
     orderToDelete |-> NoOrder, viewingOrder |-> NoOrder,
     editableChequeBalance |-> Empty, editableCreditBalance |-> Empty,
     editableAmountPaid |-> Empty, inFlight |-> << >>, run |-> NoRun,
     memo |-> NoMemo]

Store(orders, stock, allocations) ==
    [orders |-> orders, stock |-> stock, allocations |-> allocations,
     customers |-> [c \in Customers |-> [totalSpent |-> 0, outstandingBalance |-> 0]],
     collections |-> << >>]

\* what a driver is allocated for today
Allocation ==
    [allocatedItems |-> << [productId |-> "P1", quantity |-> MaxStock],
                           [productId |-> "P2", quantity |-> 1] >>,
     salesTotal |-> 0]

\* the signed-in user of the first session and today's allocations: an administrator,
\* a driver with an allocation, a driver without one
Staff ==
    {[role |-> "Admin",  allocations |-> [s \in Sessions |-> Allocation]],
     [role |-> "Driver", allocations |-> [s \in Sessions |-> Allocation]],
     [role |-> "Driver", allocations |-> [s \in Sessions |-> NoAlloc]]}

\* the page loaded in both sessions from the store d; the second session is a driver's
Loaded(d, role) ==
    /\ db = d
    /\ ui = [s \in Sessions |-> Mounted(s, IF s = "s1" THEN role ELSE "Driver", d)]
    /\ last = NoHistory
    /\ deducted = [id \in OrderIds |-> 0]

\* the users who act on the page
Users == {"s1"}

(***************************************************************************)
(* The whole page.  The store holds one pending order; the form is used to *)
(* re-save a stored order, the view to hold and release its first line, to *)
(* save the balances and to deliver.                                       *)
(***************************************************************************)
StartRows ==
    {Row(1, "c1", Pending, << Line("P1", 1, 5, 0) >>, << Line("P2", 1, 2, 0) >>),
     Row(1, "c2", Pending, << Line("P1", MaxStock, 5, 0), Line("P2", MaxStock, 2, 0),
                               Line(Unlisted, 1, 2, 0) >>, << >>)}

StartStock == {[p \in Products |-> 1], [p \in Products |-> MaxStock]}

Init ==
    /\ \E row \in StartRows, stock \in StartStock, staff \in Staff :
          Loaded(Store([id \in {1} |-> row], stock, staff.allocations), staff.role)
    /\ budget = MaxWrites

Next ==
    \E s \in Users :
        \/ \E id \in OrderIds : OpenEditModal(s, id)
        \/ CloseModal(s)
        \/ HandleSaveOrder(s)
        \/ \E id \in OrderIds : OpenViewModal(s, id)
        \/ CloseViewModal(s)
        \/ \E action \in {"hold", "unhold"} : HandleToggleHoldInView(s, "P1", action)
        \/ \E confirmed \in BOOLEAN : HandleSaveBalances(s, confirmed)
        \/ SaveBalancesThen(s)
        \/ \E confirmed \in BOOLEAN : HandleDownloadBill(s, confirmed)

Spec == Init /\ [][Next]_vars

(***************************************************************************)
(* The order view alone: the balances fields and the hold buttons of a     *)
(* stored order, nothing saved.                                            *)
(***************************************************************************)
Balanced(row, cheque, credit) ==
    [row EXCEPT !.chequeBalance = cheque, !.creditBalance = credit]

ViewRows ==
    {Row(1, "c1", Pending, << Line("P1", 2, 5, 0) >>, << Line("P2", 1, 2, 0) >>),
     Balanced(Row(1, "c1", Pending, << Line("P1", 2, 5, 0), Line("P2", 1, 2, 50) >>, << >>),
              300, 500),
     Row(1, "c2", Pending, << Line("P1", 2, 5, 0) >>, << Line(Unlisted, 1, 2, 0) >>)}

ViewStock == {[p \in Products |-> IF p = "P2" THEN 0 ELSE MaxStock],
              [p \in Products |-> MaxStock]}

\* what the user types into the Pending Cheque and Amount Paid inputs
Amounts == {Empty, Num(0), Num(200), Num(300), Num(1500)}

InitView ==
    /\ \E row \in ViewRows, stock \in ViewStock, staff \in Staff :
          Loaded(Store([id \in {1} |-> row], stock, staff.allocations), staff.role)
    /\ budget = 0

NextView ==
    \E s \in Users :
        \/ \E id \in OrderIds : OpenViewModal(s, id)
        \/ CloseViewModal(s)
        \/ \E val \in Amounts : ChequeChange(s, val)
        \/ \E val \in Amounts : AmountPaidChange(s, val)
        \/ \E p \in AllPids, action \in {"hold", "unhold"} : HandleToggleHoldInView(s, p, action)

SpecView == InitView /\ [][NextView]_vars

(***************************************************************************)
(* The create/edit form alone, nothing saved.                              *)
(***************************************************************************)
FormRows == {Row(1, "c1", Pending, << Line("P1", 1, 5, 0) >>, << Line("P2", 1, 2, 0) >>)}

FormStock == {[p \in Products |-> IF p = "P2" THEN 0 ELSE MaxStock],
              [p \in Products |-> 1]}

FormStaff == Staff \cup {[role |-> "Sales", allocations |-> [s \in Sessions |-> NoAlloc]]}

\* what the user types into the quantity, discount and price inputs
Quantities == 0..(MaxStock + 1)
Discounts == {10}
Prices == {3}

InitForm ==
    /\ \E row \in FormRows, stock \in FormStock, staff \in FormStaff :
          Loaded(Store([id \in {1} |-> row], stock, staff.allocations), staff.role)
    /\ budget = 0

NextForm ==
    \E s \in Users :
        \/ OpenCreateModal(s)
        \/ \E id \in OrderIds : OpenEditModal(s, id)
        \/ CloseModal(s)
        \/ \E c \in Customers : SelectCustomer(s, c)
        \/ \E p \in Products, quantity \in Quantities : HandleQuantityChange(s, p, quantity)
        \/ \E p \in Products, discount \in Discounts : HandleDiscountChange(s, p, discount)
        \/ \E p \in Products, price \in Prices : HandlePriceChange(s, p, price)
        \/ \E p \in Products : ToggleHoldItem(s, p)

SpecForm == InitForm /\ [][NextForm]_vars

(***************************************************************************)
(* The items of the orders: lines entered and held in the form, saved, and *)
(* held and released in the view.                                          *)
(***************************************************************************)
InitItems ==
    /\ \E row \in FormRows, stock \in FormStock, staff \in Staff :
          Loaded(Store([id \in {1} |-> row], stock, staff.allocations), staff.role)
    /\ budget = MaxSaves

NextItems ==
    \E s \in Users :
        \/ OpenCreateModal(s)
        \/ \E id \in OrderIds : OpenEditModal(s, id)
        \/ CloseModal(s)
        \/ \E p \in Products : HandleQuantityChange(s, p, 1)
        \/ \E p \in Products : ToggleHoldItem(s, p)
        \/ HandleSaveOrder(s)
        \/ \E id \in OrderIds : OpenViewModal(s, id)
        \/ CloseViewModal(s)
        \/ \E p \in Products, action \in {"hold", "unhold"} : HandleToggleHoldInView(s, p, action)

SpecItems == InitItems /\ [][NextItems]_vars

(***************************************************************************)
(* What is typed into the form, values out of range included, up to the    *)
(* first save of the run.                                                  *)
(***************************************************************************)
\* orders saved from the form in one run on the values typed into it
MaxEntrySaves == 1

EntryRows == {Row(1, "c1", Pending, << Line("P1", 1, 5, 50) >>, << Line("P2", 1, 2, 0) >>)}

EntryStaff ==
    {[role |-> "Sales",  allocations |-> [s \in Sessions |-> NoAlloc]],
     [role |-> "Driver", allocations |-> [s \in Sessions |-> Allocation]]}

\* what the user types into the quantity, discount and price inputs
EntryQuantities == {-1, 1, MaxStock + 1}
EntryDiscounts == {-5, 10, 150}
EntryPrices == {-1, 3}

InitEntry ==
    /\ \E row \in EntryRows, stock \in FormStock, staff \in EntryStaff :
          Loaded(Store([id \in {1} |-> row], stock, staff.allocations), staff.role)
    /\ budget = MaxEntrySaves

NextEntry ==
    \E s \in Users :
        \/ budget = MaxEntrySaves /\ OpenCreateModal(s)
        \/ budget = MaxEntrySaves /\ \E id \in OrderIds : OpenEditModal(s, id)
        \/ CloseModal(s)
        \/ budget = MaxEntrySaves /\ \E c \in Customers : SelectCustomer(s, c)
        \/ budget = MaxEntrySaves /\ \E p \in Products, quantity \in EntryQuantities :
                             HandleQuantityChange(s, p, quantity)
        \/ budget = MaxEntrySaves /\ \E discount \in EntryDiscounts : HandleDiscountChange(s, "P1", discount)
        \/ budget = MaxEntrySaves /\ \E price \in EntryPrices : HandlePriceChange(s, "P1", price)
        \/ budget = MaxEntrySaves /\ \E p \in Products : ToggleHoldItem(s, p)
        \/ HandleSaveOrder(s)

SpecEntry == InitEntry /\ [][NextEntry]_vars

(***************************************************************************)
(* The balances of a viewed order: typed, saved, and read back.            *)
(***************************************************************************)
BalanceRows ==
    {Row(1, "c1", Pending, << Line("P1", 2, 5, 0) >>, << >>),
     Balanced(Row(1, "c1", Pending, << Line("P1", 2, 5, 0), Line("P2", 1, 2, 50) >>, << >>),
              300, 500)}

\* what the user types into the Pending Cheque and Amount Paid inputs before a save
BalanceAmounts == {Empty, Num(300), Num(1500)}

InitBalances ==
    /\ \E row \in BalanceRows, role \in {"Admin"} :
          Loaded(Store([id \in {1} |-> row], [p \in Products |-> MaxStock],
                       [s \in Sessions |-> Allocation]), role)
    /\ budget = MaxSaves

NextBalances ==
    \E s \in Users :
        \/ \E id \in OrderIds : OpenViewModal(s, id)
        \/ CloseViewModal(s)
        \/ \E val \in BalanceAmounts : ChequeChange(s, val)
        \/ \E val \in BalanceAmounts : AmountPaidChange(s, val)
        \/ \E confirmed \in BOOLEAN : HandleSaveBalances(s, confirmed)
        \/ SaveBalancesThen(s)

SpecBalances == InitBalances /\ [][NextBalances]_vars

(***************************************************************************)
(* Deliveries: one user views the stored orders, holds and releases lines  *)
(* and delivers.                                                           *)
(***************************************************************************)
DeliveryRows ==
    {Row(1, "c1", Pending, << Line("P1", 2, 5, 0), Line("P2", 1, 2, 0) >>, << >>),
     Row(1, "c1", Pending, << Line("P1", 1, 5, 0) >>, << Line("P2", 1, 2, 0) >>)}

\* a second order of the store
OtherRow == Row(2, "c2", Pending, << Line("P1", 1, 5, 0) >>, << >>)

DeliveryStaff == Staff \cup {[role |-> "Manager", allocations |-> [s \in Sessions |-> NoAlloc]]}

InitDelivery ==
    /\ \E row \in DeliveryRows, stock \in StartStock, staff \in DeliveryStaff :
          Loaded(Store([id \in {1, 2} |-> IF id = 1 THEN row ELSE OtherRow],
                       stock, staff.allocations), staff.role)
    /\ budget = MaxWrites

NextDelivery ==
    \E s \in Users :
        \/ \E id \in OrderIds : OpenViewModal(s, id)
        \/ CloseViewModal(s)
        \/ \E p \in Products, action \in {"hold", "unhold"} : HandleToggleHoldInView(s, p, action)
        \/ \E confirmed \in BOOLEAN : HandleDownloadBill(s, confirmed)

SpecDelivery == InitDelivery /\ [][NextDelivery]_vars

(***************************************************************************)
(* Saving from the form: quantities typed and cleared, lines held, the     *)
(* customer chosen, up to the first save of the run.  One stored order has *)
(* lost its customer.                                                      *)
(***************************************************************************)
SaveRows ==
    {Row(1, "c1", Pending, << Line("P1", 1, 5, 50) >>, << Line("P2", 1, 2, 0) >>),
     Row(1, "", Pending, << Line("P1", 1, 5, 0) >>, << >>)}

SaveStaff ==
    {[role |-> "Sales",  allocations |-> [s \in Sessions |-> NoAlloc]],
     [role |-> "Driver", allocations |-> [s \in Sessions |-> Allocation]]}

\* what the user types into the quantity inputs
SaveQuantities == {-1, 1}

InitSave ==
    /\ \E row \in SaveRows, stock \in FormStock, staff \in SaveStaff :
          Loaded(Store([id \in {1} |-> row], stock, staff.allocations), staff.role)
    /\ budget = MaxEntrySaves

NextSave ==
    \E s \in Users :
        \/ budget = MaxEntrySaves /\ OpenCreateModal(s)
        \/ budget = MaxEntrySaves /\ \E id \in OrderIds : OpenEditModal(s, id)
        \/ CloseModal(s)
        \/ budget = MaxEntrySaves /\ \E c \in Customers : SelectCustomer(s, c)
        \/ budget = MaxEntrySaves /\ \E p \in Products, quantity \in SaveQuantities :
                             HandleQuantityChange(s, p, quantity)
        \/ budget = MaxEntrySaves /\ \E p \in Products : ToggleHoldItem(s, p)
        \/ HandleSaveOrder(s)

SpecSave == InitSave /\ [][NextSave]_vars

(***************************************************************************)
(* Two users creating and deleting orders on one store; the second is a   *)
(* driver who sells from today's allocation.                               *)
(***************************************************************************)
CreateRows == {Row(1, "c1", Pending, << Line("P1", 1, 5, 0) >>, << >>)}

InitCreate ==
    /\ \E row \in CreateRows, role \in {"Admin", "Sales"} :
          Loaded(Store([id \in {1} |-> row], [p \in Products |-> MaxStock],
                       [s \in Sessions |-> Allocation]), role)
    /\ budget = MaxWrites

NextCreate ==
    \E s \in Sessions :
        \/ OpenCreateModal(s)
        \/ CloseModal(s)
        \/ HandleQuantityChange(s, "P1", 1)
        \/ HandleSaveOrder(s)
        \/ \E id \in OrderIds : OpenDeleteModal(s, id)
        \/ CloseDeleteModal(s)
        \/ HandleDeleteOrder(s)

SpecCreate == InitCreate /\ [][NextCreate]_vars

(***************************************************************************)
(* Two users delivering from one store.  The first views the first order  *)
(* and delivers it; the second views either order, saves its balances and  *)
(* delivers it.  The two orders name different products.                   *)
(***************************************************************************)
RaceRows ==
    [id \in {1, 2} |-> IF id = 1 THEN Row(1, "c1", Pending, << Line("P1", 1, 5, 0) >>, << >>)
                       ELSE Row(2, "c2", Pending, << Line("P2", 1, 2, 0) >>, << >>)]

RaceStock == [p \in Products |-> MaxStock]

InitRace ==
    /\ Loaded(Store(RaceRows, RaceStock, [s \in Sessions |-> Allocation]), "Admin")
    /\ budget = MaxWrites + 1

NextRace ==
    \/ OpenViewModal("s1", 1)
    \/ HandleDownloadBill("s1", TRUE)
    \/ \E id \in OrderIds : OpenViewModal("s2", id)
    \/ CloseViewModal("s2")
    \/ HandleSaveBalances("s2", TRUE)
    \/ SaveBalancesThen("s2")
    \/ HandleDownloadBill("s2", TRUE)

SpecRace == InitRace /\ [][NextRace]_vars

(***************************************************************************)
(* Two users delivering one order, each request of handleConfirmFinalize   *)
(* a step of its own.  The order names one product twice, or two products. *)
(***************************************************************************)
RequestRows ==
    {Row(1, "c1", Pending, << Line("P1", 1, 5, 0), Line("P1", 1, 5, 0) >>, << >>),
     Row(1, "c1", Pending, << Line("P1", 2, 5, 0), Line("P2", 1, 2, 0) >>, << >>)}

InitRequests ==
    /\ \E row \in RequestRows, stock \in StartStock, role \in {"Admin", "Driver"} :
          Loaded(Store([id \in {1} |-> row], stock, [s \in Sessions |-> Allocation]), role)
    /\ budget = MaxWrites

NextRequests ==
    \E s \in Sessions :
        \/ \E id \in OrderIds : OpenViewModal(s, id)
        \/ RequestStatus(s)
        \/ StatusAnswered(s, TRUE)
        \/ AllocationAnswered(s, TRUE)
        \/ StockAnswered(s, TRUE)
        \/ RefreshAnswered(s)
        \/ \E request \in {"status again", "customers"} : UnawaitedAnswered(s, request, TRUE)

SpecRequests == InitRequests /\ [][NextRequests]_vars

(***************************************************************************)
(* One user delivering, each request of handleConfirmFinalize a step of    *)
(* its own, and the store free to refuse any write.                        *)
(***************************************************************************)
InitFailures ==
    /\ \E row \in RequestRows, role \in {"Admin", "Driver"} :
          Loaded(Store([id \in {1} |-> row], [p \in Products |-> MaxStock],
                       [s \in Sessions |-> Allocation]), role)
    /\ budget = MaxWrites

NextFailures ==
    \E s \in Users, ok \in BOOLEAN :
        \/ \E id \in OrderIds : OpenViewModal(s, id)
        \/ CloseViewModal(s)
        \/ RequestStatus(s)
        \/ StatusAnswered(s, ok)
        \/ AllocationAnswered(s, ok)
        \/ StockAnswered(s, ok)
        \/ RefreshAnswered(s)
        \/ \E request \in {"status again", "customers"} : UnawaitedAnswered(s, request, ok)

SpecFailures == InitFailures /\ [][NextFailures]_vars

(***************************************************************************)
(* One user delivering the first order, request by request, and saving    *)
(* the second from the form meanwhile.                                     *)
(***************************************************************************)
MemoRows ==
    [id \in {1, 2} |-> IF id = 1 THEN Row(1, "c1", Pending, << Line("P1", MaxStock, 5, 0) >>, << >>)
                       ELSE Row(2, "c2", Pending, << Line("P1", 1, 5, 0), Line("P2", 1, 2, 0) >>,
                                << >>)]

InitMemo ==
    /\ \E role \in {"Admin", "Driver"} :
          Loaded(Store(MemoRows, [p \in Products |-> MaxStock],
                       [s \in Sessions |-> Allocation]), role)
    /\ budget = MaxWrites

NextMemo ==
    \E s \in Users :
        \/ \E id \in OrderIds : OpenViewModal(s, id)
        \/ CloseViewModal(s)
        \/ RequestStatus(s)
        \/ StatusAnswered(s, TRUE)
        \/ AllocationAnswered(s, TRUE)
        \/ StockAnswered(s, TRUE)
        \/ RefreshAnswered(s)
        \/ \E request \in {"status again", "customers"} : UnawaitedAnswered(s, request, TRUE)
        \/ \E id \in OrderIds : OpenEditModal(s, id)
        \/ CloseModal(s)
        \/ HandleSaveOrder(s)

SpecMemo == InitMemo /\ [][NextMemo]_vars

(***************************************************************************)
(* Two users on one store: each may re-save a stored order from the form,  *)
(* delete it, and deliver it from the view.                                *)
(***************************************************************************)
InitShared ==
    /\ \E row \in StartRows, stock \in StartStock, staff \in Staff :
          Loaded(Store([id \in {1} |-> row], stock, staff.allocations), staff.role)
    /\ budget = MaxWrites

NextShared ==
    \E s \in Sessions :
        \/ \E id \in OrderIds : OpenEditModal(s, id)
        \/ CloseModal(s)
        \/ HandleSaveOrder(s)
        \/ \E id \in OrderIds : OpenDeleteModal(s, id)
        \/ CloseDeleteModal(s)
        \/ HandleDeleteOrder(s)
        \/ \E id \in OrderIds : OpenViewModal(s, id)
        \/ CloseViewModal(s)
        \/ \E confirmed \in BOOLEAN : HandleDownloadBill(s, confirmed)

SpecShared == InitShared /\ [][NextShared]_vars

(***************************************************************************)
(* Properties of finalization.                                             *)
(***************************************************************************)
\* the lines of an order that the stock check of session s refuses
FailingLines(s, order) ==
    {k \in 1..Len(order.orderItems) :
        \/ order.orderItems[k].productId \notin Products
        \/ getEffectiveStock(ui[s], order.orderItems[k].productId)
               < order.orderItems[k].quantity}

\* session s confirms Download Bill on a viewed order that is not delivered, so that
\* handleConfirmFinalize runs on it
Finalizes(s) ==
    /\ HandleDownloadBill(s, TRUE)
    /\ IsOrder(ui[s].viewingOrder)
    /\ ui[s].viewingOrder.customerId \in Customers
    /\ ui[s].viewingOrder.status # Delivered
    /\ canMarkDelivered(ui[s])

\* C1: handleConfirmFinalize writes nothing to the store and sets no state when the
\* target order has no active line or when an active line's product is missing from
\* the catalog or has less effective stock than the line asks for; in the second case
\* the alert names the first such line in list order.
C1_AbortWritesNothing ==
    [][\A s \in Sessions :
         LET order == ui[s].viewingOrder
             failing == FailingLines(s, order)
             first == CHOOSE k \in failing : \A j \in failing : k <= j
         IN  Finalizes(s) /\ (order.orderItems = << >> \/ failing # {})
             => /\ db' = db
                /\ ui' = ui
                /\ deducted' = deducted
                /\ last' = IF order.orderItems = << >>
                           THEN Did(s, "handleConfirmFinalize", "no items", "")
                           ELSE Did(s, "handleConfirmFinalize", "insufficient stock",
                                    AlertName(order.orderItems[first].productId))]_vars

\* C1 happens: a finalize stopped at the second line of an order whose first line passed
C1_Witness ==
    \E s \in Sessions :
        /\ last = Did(s, "handleConfirmFinalize", "insufficient stock", "P2")
        /\ Len(ui[s].viewingOrder.orderItems) >= 2
        /\ ui[s].viewingOrder.orderItems[1].productId = "P1"
        /\ ui[s].viewingOrder.orderItems[2].productId = "P2"

\* C2: finalize is idempotent with respect to inventory: whatever the user does in
\* between, the runs of handleConfirmFinalize on one order lower the warehouse stock
\* at most once; a run on an order already Delivered lowers no stock.
C2_DeductsOnce == \A id \in OrderIds : deducted[id] <= 1

\* C9: Delivered is terminal: once the persisted status of an order is Delivered, no
\* command (an edit saved from a form opened earlier, save balances, hold/unhold,
\* finalize) changes it to another status.
C9_DeliveredIsTerminal ==
    [][\A id \in DOMAIN db.orders \cap DOMAIN db'.orders :
          db.orders[id].status = Delivered => db'.orders[id].status = Delivered]_vars

(***************************************************************************)
(* Properties of the create/edit form.                                     *)
(***************************************************************************)
\* the entries of the form of u with a quantity above 0 for a product of the catalog
Entered(u) ==
    {k \in 1..Len(u.orderItems) :
        u.orderItems[k].productId \in Products /\ u.orderItems[k].quantity > 0}

\* of these, the entries put aside: the id is in the held set or the product has no
\* effective stock
PutAside(u) ==
    {k \in Entered(u) :
        \/ u.orderItems[k].productId \in u.heldItems
        \/ getEffectiveStock(u, u.orderItems[k].productId) = 0}

\* price x quantity x (100 - discount) of entry k, the price falling back to the
\* catalog price and the discount to 0
LineAmount(u, k) ==
    LET p == u.orderItems[k].productId
        price == IF p \in DOMAIN u.orderItemPrices THEN u.orderItemPrices[p]
                 ELSE CatalogPrice[p]
        discount == IF p \in DOMAIN u.orderDiscounts THEN u.orderDiscounts[p] ELSE 0
    IN  price * u.orderItems[k].quantity * (100 - discount)

RECURSIVE SumAmounts(_, _)
SumAmounts(u, S) ==
    IF S = {} THEN 0
    ELSE LET k == CHOOSE x \in S : TRUE
         IN  LineAmount(u, k) + SumAmounts(u, S \ {k})

RECURSIVE SumQuantities(_, _)
SumQuantities(u, S) ==
    IF S = {} THEN 0
    ELSE LET k == CHOOSE x \in S : TRUE
         IN  u.orderItems[k].quantity + SumQuantities(u, S \ {k})

\* C4: whatever quantities, prices, discounts and held set the form holds, the
\* aggregator's total is the sum of price x quantity x (1 - discount/100) over the
\* lines with a quantity above 0 that are neither held nor without effective stock,
\* inStockItems is the sum of these lines' quantities, and heldItemsCount is the sum of
\* the quantities of the lines with a quantity above 0 that are held or without
\* effective stock; a line with quantity 0 adds to none of them.
C4_AggregatorSums ==
    \A s \in Sessions :
        LET u == ui[s]
        IN  FormOpen(u) =>
               /\ Aggregate(u).total = SumAmounts(u, Entered(u) \ PutAside(u))
               /\ Aggregate(u).inStockItems = SumQuantities(u, Entered(u) \ PutAside(u))
               /\ Aggregate(u).heldItemsCount = SumQuantities(u, PutAside(u))

\* C4 happens: a form with a discounted active line of a typed price, and a line that
\* counts as held only because its product has no effective stock
C4_Witness ==
    \E s \in Sessions :
        LET u == ui[s]
        IN  /\ FormOpen(u)
            /\ \E k \in Entered(u) \ PutAside(u) :
                  /\ u.orderItems[k].productId \in DOMAIN u.orderDiscounts
                  /\ u.orderDiscounts[u.orderItems[k].productId] > 0
                  /\ u.orderItemPrices[u.orderItems[k].productId]
                        # CatalogPrice[u.orderItems[k].productId]
            /\ \E k \in PutAside(u) : u.orderItems[k].productId \notin u.heldItems
            /\ Aggregate(u).total > 0
            /\ Aggregate(u).heldItemsCount > 0

\* C7: in the create/edit form, whatever sequence of handleQuantityChange and
\* toggleHoldItem ran, every active line (quantity above 0, not held, effective stock
\* above 0) has a quantity of at most the effective stock of its product.
C7_ActiveWithinStock ==
    \A s \in Sessions :
        LET u == ui[s]
        IN  FormOpen(u) =>
               \A k \in Entered(u) \ PutAside(u) :
                   u.orderItems[k].quantity <= getEffectiveStock(u, u.orderItems[k].productId)

(***************************************************************************)
(* Properties of the order view.                                           *)
(***************************************************************************)
ViewOpen(u) == IsOrder(u.viewingOrder)

\* C3: while the order view is open (after openViewModal, after every edit of the
\* cheque field or of the amount-paid field with an input of 0 or more, after every
\* hold or unhold done in the view), amount paid + cheque balance + credit balance is
\* the total of the viewed order.
C3_BalancesSumToTotal ==
    \A s \in Sessions :
        LET u == ui[s]
        IN  /\ ViewOpen(u)
            /\ u.editableAmountPaid # Empty
            /\ u.editableChequeBalance # Empty
            /\ u.editableCreditBalance # Empty
            => u.editableAmountPaid[1] + u.editableChequeBalance[1]
                  + u.editableCreditBalance[1] = u.viewingOrder.total

\* C10: an edit of the cheque field or of the amount-paid field sets the credit
\* balance to max(0, total - amount paid - cheque), taken with the new value of the
\* edited field and the current value of the other field, an empty field counting as 0.
C10_CreditRecomputed ==
    [][\A s \in Sessions, val \in Amounts :
         LET u == ui[s]
             total == u.viewingOrder.total
         IN  /\ ChequeChange(s, val) =>
                   ui'[s].editableCreditBalance =
                      Num(Max2(0, total - ToNum(u.editableAmountPaid) - ToNum(val)))
             /\ AmountPaidChange(s, val) =>
                   ui'[s].editableCreditBalance =
                      Num(Max2(0, total - ToNum(val) - ToNum(u.editableChequeBalance)))]_vars

\* the line of product p in a list of items
LineOf(items, p) == items[FindIndex(items, p)]

\* C5: in the order view, hold(p) followed by unhold(p), for a product p with
\* effective stock, leaves p in the active list with the quantity, price and discount
\* it had, the held list as it was, and the order's total as it was.
C5_HoldUnholdRoundTrip ==
    \A s \in Sessions, p \in Products :
        LET u == ui[s]
            back == HoldToggledInView(HoldToggledInView(u, p, "hold"), p, "unhold")
        IN  /\ ViewOpen(u)
            /\ p \in PidsOf(u.viewingOrder.orderItems)
            /\ getEffectiveStock(u, p) > 0
            => /\ p \in PidsOf(back.viewingOrder.orderItems)
               /\ LineOf(back.viewingOrder.orderItems, p) = LineOf(u.viewingOrder.orderItems, p)
               /\ back.viewingOrder.backorderedItems = u.viewingOrder.backorderedItems
               /\ back.viewingOrder.total = u.viewingOrder.total

\* C5 happens: the discounted line of P2 was put aside and taken back, which moved it
\* behind the other active line; the held list is empty again and the total is the
\* stored one
C5_Witness ==
    \E s \in Sessions :
        LET u == ui[s]
        IN  /\ ViewOpen(u)
            /\ last = Did(s, "unhold", "moved", "")
            /\ u.viewingOrder.orderItems = << Line("P1", 2, 5, 0), Line("P2", 1, 2, 50) >>
            /\ u.viewingOrder.backorderedItems = << >>
            /\ u.viewingOrder.total = db.orders[u.viewingOrder.id].total
            /\ db.orders[u.viewingOrder.id].orderItems[1].productId = "P1"

\* an invalid hold or unhold of product p on the order that u views
InvalidToggle(u, p, action) ==
    IF action = "hold"
    THEN p \notin PidsOf(u.viewingOrder.orderItems)
    ELSE \/ p \notin PidsOf(u.viewingOrder.backorderedItems)
         \/ p \notin Products
         \/ getEffectiveStock(u, p) = 0

\* C6: an invalid hold or unhold in the order view (hold of a product that is not in
\* the active list, unhold of a product that is not in the held list, that has no
\* effective stock or that the catalog lacks) leaves viewingOrder, the orders list and
\* the order's total as they are.
C6_InvalidToggleIsNoOp ==
    [][\A s \in Sessions, p \in AllPids, action \in {"hold", "unhold"} :
         HandleToggleHoldInView(s, p, action) /\ InvalidToggle(ui[s], p, action)
         => ui' = ui /\ db' = db]_vars

\* C6 happens: an unhold returned on a held line whose product has no effective stock
C6_Witness ==
    \E s \in Sessions, p \in Products :
        /\ ViewOpen(ui[s])
        /\ last = Did(s, "unhold", "returned", "")
        /\ p \in PidsOf(ui[s].viewingOrder.backorderedItems)
        /\ getEffectiveStock(ui[s], p) = 0

(***************************************************************************)
(* Properties of the items of the orders.                                  *)
(***************************************************************************)
\* no product id occurs twice in items
NoDuplicate(items) ==
    \A i, j \in 1..Len(items) : items[i].productId = items[j].productId => i = j

\* the active and the held list of an order share no product id, and neither lists
\* a product id twice
Partitioned(order) ==
    /\ PidsOf(order.orderItems) \cap PidsOf(order.backorderedItems) = {}
    /\ NoDuplicate(order.orderItems)
    /\ NoDuplicate(order.backorderedItems)

\* C8: in every state reached through create, edit save and hold/unhold in the view,
\* the active list and the held list of every order (stored, listed in a session,
\* viewed) are disjoint by product id and neither has a product id twice.
C8_ItemsPartitioned ==
    /\ \A id \in DOMAIN db.orders : Partitioned(db.orders[id])
    /\ \A s \in Sessions :
          /\ \A id \in DOMAIN ui[s].orders : Partitioned(ui[s].orders[id])
          /\ ViewOpen(ui[s]) => Partitioned(ui[s].viewingOrder)

\* C8 happens: a created order with an active and a held line is stored beside an
\* edited one, and a session views an order whose lines it moved
C8_Witness ==
    \E s \in Sessions :
        /\ DOMAIN db.orders = {1, 2}
        /\ db.orders[2].orderItems # << >> /\ db.orders[2].backorderedItems # << >>
        /\ budget = 0
        /\ ViewOpen(ui[s])
        /\ last = Did(s, "unhold", "moved", "")
        /\ ui[s].viewingOrder.orderItems # db.orders[ui[s].viewingOrder.id].orderItems

(***************************************************************************)
(* Properties of hold and unhold in the order view.                        *)
(***************************************************************************)
\* the lines of items other than the line of product p, in their order
Others(items, p) == SelectSeq(items, LAMBDA item : item.productId # p)

\* C11: hold(p) in the order view, for p in the active list, takes exactly the line of
\* p out of the active list and appends it to the held list with its quantity, price
\* and discount as they were; every other line of both lists stays as it is.
C11_HoldMovesOneLine ==
    [][\A s \in Sessions, p \in AllPids :
         LET order == ui[s].viewingOrder
             after == ui'[s].viewingOrder
         IN  HandleToggleHoldInView(s, p, "hold") /\ p \in PidsOf(order.orderItems)
             => /\ after.orderItems = Others(order.orderItems, p)
                /\ after.backorderedItems =
                       Append(order.backorderedItems, LineOf(order.orderItems, p))
                /\ after.id = order.id]_vars

\* C11 happens: the discounted second line of a two-line order was put aside, the first
\* line is the active list
C11_Witness ==
    \E s \in Sessions :
        LET u == ui[s]
        IN  /\ ViewOpen(u)
            /\ last = Did(s, "hold", "moved", "")
            /\ u.viewingOrder.orderItems = << Line("P1", 2, 5, 0) >>
            /\ u.viewingOrder.backorderedItems = << Line("P2", 1, 2, 50) >>

\* C12: unhold(p) in the order view moves a line to the active list only when p is in
\* the held list and p's effective stock at that moment is above 0.
C12_UnholdNeedsStock ==
    [][\A s \in Sessions, p \in AllPids :
         HandleToggleHoldInView(s, p, "unhold") /\ ui'[s] # ui[s]
         => /\ p \in PidsOf(ui[s].viewingOrder.backorderedItems)
            /\ p \in Products
            /\ getEffectiveStock(ui[s], p) > 0
            /\ p \in PidsOf(ui'[s].viewingOrder.orderItems)]_vars

\* C12 happens: a line that the stored order holds went back to the active list of the
\* viewed order, its product having effective stock
C12_Witness ==
    \E s \in Sessions, p \in Products :
        /\ ViewOpen(ui[s])
        /\ last = Did(s, "unhold", "moved", "")
        /\ getEffectiveStock(ui[s], p) > 0
        /\ p \in PidsOf(ui[s].viewingOrder.orderItems)
        /\ p \notin PidsOf(db.orders[ui[s].viewingOrder.id].orderItems)

\* sum of price * quantity * (100 - discount) over the lines of items at the indices S
RECURSIVE SumOfLines(_, _)
SumOfLines(items, S) ==
    IF S = {} THEN 0
    ELSE LET k == CHOOSE k \in S : TRUE
         IN  items[k].price * items[k].quantity * (100 - items[k].discount)
                 + SumOfLines(items, S \ {k})

\* C13: after every hold or unhold in the order view that moves a line, the order's
\* total is the sum over the active list of price x quantity x (1 - discount/100); the
\* held lines add nothing to it.
C13_TotalIsActiveSum ==
    [][\A s \in Sessions, p \in AllPids, action \in {"hold", "unhold"} :
         HandleToggleHoldInView(s, p, action) /\ ui'[s] # ui[s]
         => LET after == ui'[s].viewingOrder
            IN  after.total = SumOfLines(after.orderItems, 1..Len(after.orderItems))]_vars

\* C13 happens: a line was put aside from an order with two active lines, and the total
\* is that of the line that stayed, below the stored total
C13_Witness ==
    \E s \in Sessions :
        LET u == ui[s]
        IN  /\ ViewOpen(u)
            /\ last = Did(s, "hold", "moved", "")
            /\ u.viewingOrder.orderItems # << >>
            /\ u.viewingOrder.backorderedItems # << >>
            /\ u.viewingOrder.total = 100 * 2 * 5
            /\ u.viewingOrder.total < db.orders[u.viewingOrder.id].total

(***************************************************************************)
(* Properties of the values typed into the form.                           *)
(***************************************************************************)
\* the quantity the form holds for product p
StoredQuantity(u, p) == u.orderItems[FindIndex(u.orderItems, p)].quantity

\* requested, held between 0 and upper
Clamp(requested, upper) == Max2(0, Min2(requested, upper))

\* C14 as stated: handleQuantityChange(p, requested) stores clamp(requested, 0, upper),
\* upper being unbounded if p is in the held set and effectiveStock(p) otherwise, also
\* when effectiveStock(p) is 0.
C14_QuantityClampedToStock ==
    [][\A s \in Sessions, p \in Products, requested \in EntryQuantities :
         LET u == ui[s]
         IN  HandleQuantityChange(s, p, requested)
             => StoredQuantity(ui'[s], p) =
                    IF p \in u.heldItems THEN Max2(0, requested)
                    ELSE Clamp(requested, getEffectiveStock(u, p))]_vars

\* C14 amended: handleQuantityChange(p, requested) stores clamp(requested, 0, upper),
\* upper being unbounded if p is in the held set or effectiveStock(p) is 0, and
\* effectiveStock(p) otherwise.
C14_QuantityClamped ==
    [][\A s \in Sessions, p \in Products, requested \in EntryQuantities :
         LET u == ui[s]
         IN  HandleQuantityChange(s, p, requested)
             => StoredQuantity(ui'[s], p) =
                    IF p \in u.heldItems \/ getEffectiveStock(u, p) = 0
                    THEN Max2(0, requested)
                    ELSE Clamp(requested, getEffectiveStock(u, p))]_vars

\* C14 happens: in a new order, the line of a product that has no effective stock and
\* is not held has a quantity, and the held line of a product in stock has a quantity
\* above that stock
C14_Witness ==
    \E s \in Sessions, p, q \in Products :
        LET u == ui[s]
        IN  /\ u.modalState = "create"
            /\ p \notin u.heldItems /\ getEffectiveStock(u, p) = 0
            /\ FindIndex(u.orderItems, p) # 0 /\ StoredQuantity(u, p) = MaxStock + 1
            /\ q \in u.heldItems /\ getEffectiveStock(u, q) > 0
            /\ FindIndex(u.orderItems, q) # 0
            /\ StoredQuantity(u, q) > getEffectiveStock(u, q)

\* discount is a percentage and price is not negative
InRange(discount, price) == discount >= 0 /\ discount <= 100 /\ price >= 0

C16_BalancesNotNegative ==
    /\ \A s \in Sessions :
          ViewOpen(ui[s]) => /\ ToNum(ui[s].editableChequeBalance) >= 0
                             /\ ToNum(ui[s].editableCreditBalance) >= 0
    /\ \A id \in DOMAIN db.orders :
          db.orders[id].chequeBalance >= 0 /\ db.orders[id].creditBalance >= 0


\* the outstanding balance of the fields, a '' field counting as 0
FieldsOutstanding(u) ==
    (IF u.editableChequeBalance = Empty THEN 0 ELSE u.editableChequeBalance[1])
        + (IF u.editableCreditBalance = Empty THEN 0 ELSE u.editableCreditBalance[1])

\* the stored balances of the viewed order are those of the fields
FieldsStored(u, d) ==
    LET row == d.orders[u.viewingOrder.id]
    IN  /\ row.chequeBalance = ToNum(u.editableChequeBalance)
        /\ row.creditBalance = ToNum(u.editableCreditBalance)

\* C17: handleSaveBalances writes balances whose sum is above the order's total only
\* after the user confirmed; when the user declines, nothing is written and no state
\* changes; when the user confirms, and when the sum is not above the total (no
\* question asked), the balances are written.
C17_ConfirmBeforeOverBalance ==
    [][\A s \in Sessions, confirmed \in BOOLEAN :
         LET u == ui[s]
         IN  HandleSaveBalances(s, confirmed) =>
                IF FieldsOutstanding(u) > u.viewingOrder.total /\ ~confirmed
                THEN db' = db /\ ui' = ui
                ELSE /\ FieldsStored(u, db')
                     /\ ui'[s].inFlight # << >>]_vars

\* C17 happens: balances above the total were written after the user confirmed
C17_Witness ==
    \E s \in Sessions :
        LET u == ui[s]
        IN  /\ ViewOpen(u)
            /\ last = Did(s, "handleSaveBalances", "confirmed", "")
            /\ FieldsOutstanding(u) > u.viewingOrder.total
            /\ FieldsStored(u, db)

\* the rows of collections with the key (id, type)
RowsOf(collections, id, type) ==
    {k \in 1..Len(collections) :
        collections[k].orderId = id /\ collections[k].collectionType = type}

\* the saved balance of the given collection type
BalanceOf(order, type) == IF type = "cheque" THEN order.chequeBalance ELSE order.creditBalance

\* C18: the collections store holds at most one row per (orderId, collectionType); a
\* save of balances that succeeded leaves one pending row with the cheque balance if it
\* is above 0 and one with the credit balance if it is above 0, and touches no other
\* row; a save of balances that the rows already show leaves the rows as they are.
C18_CollectionsUpsert ==
    [][\A s \in Sessions :
         SaveBalancesThen(s) =>
            LET order == Head(ui[s].inFlight)
                before == db.collections
                after == db'.collections
                written == {t \in {"cheque", "credit"} : BalanceOf(order, t) > 0}
            IN  /\ \A id \in OrderIds, t \in {"cheque", "credit"} :
                       Cardinality(RowsOf(after, id, t)) <= 1
                /\ \A t \in written :
                       \E k \in RowsOf(after, order.id, t) :
                           /\ after[k].amount = BalanceOf(order, t)
                           /\ after[k].status = "pending"
                /\ \A k \in 1..Len(before) :
                       before[k].orderId # order.id \/ before[k].collectionType \notin written
                       => after[k] = before[k]
                /\ Len(after) = Len(before)
                       + Cardinality({t \in written : RowsOf(before, order.id, t) = {}})
                /\ (\A t \in written :
                       \E k \in RowsOf(before, order.id, t) :
                           /\ before[k].amount = BalanceOf(order, t)
                           /\ before[k].status = "pending")
                   => after = before]_vars

\* C18 happens: after the second save of the run, with other balances than the first,
\* the order has one cheque row and one credit row, with the stored balances
C18_Witness ==
    \E s \in Sessions :
        /\ last = Did(s, "handleSaveBalances.then", "done", "")
        /\ budget = MaxSaves - 2
        /\ Len(db.collections) = 2
        /\ db.collections[1].collectionType = "cheque"
        /\ db.collections[1].amount = db.orders[1].chequeBalance
        /\ db.collections[2].collectionType = "credit"
        /\ db.collections[2].amount = db.orders[1].creditBalance
        /\ db.collections[2].amount = 1000 - 300

(***************************************************************************)
(* Properties of a delivery.                                               *)
(***************************************************************************)
\* a step of session s in which handleConfirmFinalize passed its checks
Delivers(s) ==
    /\ HandleDownloadBill(s, TRUE)
    /\ last' = Did(s, "handleConfirmFinalize", "delivered", "")

\* the quantity items has for product p, 0 when it has no line of p
QuantityIn(items, p) ==
    IF p \in PidsOf(items) THEN LineOf(items, p).quantity ELSE 0

\* the sum of the quantities of the lines of items at the indices S
RECURSIVE SumOfQuantities(_, _)
SumOfQuantities(items, S) ==
    IF S = {} THEN 0
    ELSE LET k == CHOOSE k \in S : TRUE
         IN  items[k].quantity + SumOfQuantities(items, S \ {k})

\* C19: when a Driver's finalize passes its checks, the driver's allocation of today
\* has each delivered product's quantity lowered by the delivered quantity (not below
\* 0), no entry with quantity 0, the entries of the other products as they were, and a
\* salesTotal grown by the sum of the delivered quantities; when the user is not a
\* Driver, no allocation changes.
C19_AllocationDecremented ==
    [][\A s \in Sessions :
         Delivers(s) =>
            LET u == ui[s]
                delivered == u.viewingOrder.orderItems
                before == db.allocations[s]
                after == db'.allocations[s]
            IN  /\ \A other \in Sessions \ {s} : db'.allocations[other] = db.allocations[other]
                /\ IF u.currentUser = "Driver" /\ IsAlloc(before)
                   THEN /\ \A p \in AllPids :
                               QuantityIn(after.allocatedItems, p) =
                                   Max2(0, QuantityIn(before.allocatedItems, p)
                                               - QuantityIn(delivered, p))
                        /\ \A k \in 1..Len(after.allocatedItems) :
                               after.allocatedItems[k].quantity > 0
                        /\ NoDuplicate(after.allocatedItems)
                        /\ after.salesTotal =
                               before.salesTotal + SumOfQuantities(delivered, 1..Len(delivered))
                   ELSE after = before]_vars

\* C19 happens: a driver delivered all that was allocated of one product and part of
\* another; the allocation has lost the first entry and kept the second
C19_Witness ==
    \E s \in Sessions :
        /\ ui[s].currentUser = "Driver"
        /\ last = Did(s, "handleConfirmFinalize", "delivered", "")
        /\ PidsOf(db.allocations[s].allocatedItems) = {"P1"}
        /\ QuantityIn(db.allocations[s].allocatedItems, "P1") = MaxStock - 1
        /\ db.allocations[s].salesTotal = 2

DeliveredOf(orders, c) ==
    {id \in DOMAIN orders : orders[id].customerId = c /\ orders[id].status = Delivered}

NoCustomerSelected(u) == u.selectedCustomer = ""

\* the form has no product with a quantity above 0
NoItemEntered(u) == \A k \in 1..Len(u.orderItems) : u.orderItems[k].quantity <= 0

\* C22: when the form has no customer selected, or no product with a quantity above
\* 0, handleSaveOrder writes nothing to the store and changes nothing in the session,
\* in create and in edit mode alike: the form stays open as it was, and the save can
\* be tried again.
C22_RejectedSaveChangesNothing ==
    [][\A s \in Sessions :
         HandleSaveOrder(s) /\ (NoCustomerSelected(ui[s]) \/ NoItemEntered(ui[s]))
         => /\ db' = db
            /\ ui' = ui
            /\ FormOpen(ui'[s])]_vars

\* C22 happens: in edit mode, with a customer selected, the quantities of both lines
\* of the order were cleared and the save was refused; the stored order has its lines
C22_Witness ==
    \E s \in Sessions :
        /\ last = Did(s, "handleSaveOrder", "rejected", "")
        /\ ui[s].modalState = "edit" /\ ui[s].selectedCustomer = "c1"
        /\ Len(ui[s].orderItems) = 2 /\ NoItemEntered(ui[s])
        /\ Len(db.orders[1].orderItems) = 1 /\ Len(db.orders[1].backorderedItems) = 1

\* session s saves the create form and the save gets as far as the insert
Inserts(s) ==
    /\ HandleSaveOrder(s)
    /\ ui[s].modalState = "create"
    /\ last'.result \in {"create", "error"}

\* C23: each created order gets the largest id among the orders the session knows
\* plus one, and at the moment of the insert no order of the store has that id,
\* whatever creates and deletes came before, from this session or from another one
\* that loaded the same orders.
C23_CreatedIdIsFresh ==
    [][\A s \in Sessions :
         Inserts(s) =>
            /\ NewOrderRow(ui[s]).id = MaxIdNum(ui[s].orders) + 1
            /\ NewOrderRow(ui[s]).id \notin DOMAIN db.orders]_vars

(***************************************************************************)
(* Properties of two users delivering the same order.                      *)
(***************************************************************************)
\* C24: a finalize that passed its checks lowers the stock by what the session's own
\* copies say: the stock written for a product of the viewed copy of the order is the
\* stock of the session's own products list less the quantity of the line, whatever
\* status and stock the store has by then.  Two sessions can so deliver the same
\* order and leave a product's stock below the initial stock less the quantity of
\* the order's line: the state of C24_Witness.
C24_DeductionFollowsOwnCopies ==
    [][\A s \in Sessions :
         Delivers(s) =>
            LET order == ui[s].viewingOrder
            IN  \A p \in Products :
                    LET quantity == QuantityIn(order.orderItems, p)
                    IN  db'.stock[p] =
                            IF quantity > 0 /\ ui[s].products[p] >= quantity
                            THEN ui[s].products[p] - quantity
                            ELSE db.stock[p]]_vars

\* C24 happens: the first user delivered the first order, and so did the second, once
\* each (of the four writes of the run, one is the first user's delivery, one the
\* second user's delivery of the second order, which names another product, and two
\* are left to the second user, one more than a save of balances); the stock of the
\* first order's product is the initial stock less twice the quantity of its line
C24_Witness ==
    /\ ui["s1"].viewingOrder = [RowToOrder(RaceRows[1]) EXCEPT !.status = Delivered]
    /\ last = Did("s2", "handleConfirmFinalize", "delivered", "")
    /\ ui["s2"].viewingOrder.id = 1
    /\ deducted = [id \in OrderIds |-> IF id = 1 THEN 2 ELSE 1]
    /\ db.orders[2].status = Delivered
    /\ db.stock["P1"] = RaceStock["P1"] - 2 * QuantityIn(RaceRows[1].orderItems, "P1")

(***************************************************************************)
(* Properties of the requests of a finalize.                               *)
(***************************************************************************)
\* the writes of the run that the store has been sent and has not answered
WritesInFlight(run) ==
    (IF run.at \in {"status", "allocation", "stock"} THEN {run.at} ELSE {}) \cup run.pending

\* C25: within one finalize, a write is answered before the next request is sent: no
\* two writes of the same finalize are unanswered at the same time, and the refresh
\* of the data is requested only when every write has been answered.
C25_WritesOneAtATime ==
    \A s \in Sessions :
        /\ Cardinality(WritesInFlight(ui[s].run)) <= 1
        /\ ui[s].run.at = "refresh" => WritesInFlight(ui[s].run) = {}

\* the store refuses a write of a finalize of session s
WriteRefused(s) ==
    \/ StatusAnswered(s, FALSE)
    \/ AllocationAnswered(s, FALSE)
    \/ StockAnswered(s, FALSE)
    \/ \E request \in {"status again", "customers"} : UnawaitedAnswered(s, request, FALSE)

\* C26: a write that the store refuses is reported to the user before the handler
\* returns; stated here for the writes of handleConfirmFinalize (status and sold,
\* allocation, product stock, second status write, customer totals), a report being
\* recorded as the result "error".
C26_RefusedWriteIsReported ==
    [][\A s \in Sessions : WriteRefused(s) => last'.result = "error"]_vars

(***************************************************************************)
(* Properties of the local orders list.                                    *)
(***************************************************************************)
\* what the claim compares of an order, of the list or of the store
Compared(o) ==
    [status |-> o.status, total |-> o.total, orderItems |-> o.orderItems,
     backorderedItems |-> o.backorderedItems,
     chequeBalance |-> o.chequeBalance, creditBalance |-> o.creditBalance]

\* the orders list equals the orders of the store d
SameOrders(orders, d) ==
    /\ DOMAIN orders = DOMAIN d.orders
    /\ \A id \in DOMAIN orders : Compared(orders[id]) = Compared(d.orders[id])

\* a step in which a command of session s that changes an order ends well: an order
\* saved from the form, an order deleted, a line held or released in the view, the
\* callback of a save of the balances, a finalize
Completes(s) ==
    \/ HandleSaveOrder(s) /\ last'.result \in {"create", "edit"}
    \/ HandleDeleteOrder(s)
    \/ \E p \in Products, action \in {"hold", "unhold"} :
          HandleToggleHoldInView(s, p, action) /\ last'.result = "moved"
    \/ SaveBalancesThen(s)
    \/ Delivers(s)

\* C27: when a command that changes an order has ended well, the orders list of the
\* session equals the orders of the store: the same orders, each with the same status,
\* total, active items, backordered items, cheque balance and credit balance.
C27_ListEqualsStore ==
    [][\A s \in Sessions : Completes(s) => SameOrders(ui'[s].orders, db')]_vars

\* a step in which handleSaveOrder of session s writes the row of the order id
Saves(s, id) ==
    /\ HandleSaveOrder(s)
    /\ last'.result \in {"create", "edit"}
    /\ id = (IF ui[s].modalState = "create" THEN NewOrderRow(ui[s]).id
             ELSE ui[s].currentOrder.id)
    /\ id \in DOMAIN db'.orders

\* C28: every row handleSaveOrder writes, in create or in edit mode, has a total
\* equal to the sum of price x quantity x (1 - discount/100) over the items of its
\* orderItems, and to nothing more: its backordered items add nothing to the total.
C28_TotalOfWrittenItems ==
    [][\A s \in Sessions, id \in OrderIds :
         Saves(s, id) => db'.orders[id].total = ItemsTotal(db'.orders[id].orderItems)]_vars

(***************************************************************************)
(* Properties of a repeated delivery.                                      *)
(***************************************************************************)
\* C29: a finalize by a Driver on an order that is already Delivered, in the store or
\* in the copy the handler is given, leaves the allocation of the driver as it is:
\* neither its allocatedItems nor its salesTotal change.
C29_AllocationKeptOnDelivered ==
    [][\A s \in Sessions :
         LET order == ui[s].viewingOrder
         IN  /\ Delivers(s)
             /\ ui[s].currentUser = "Driver"
             /\ (order.status = Delivered \/ db.orders[order.id].status = Delivered)
             => /\ db'.allocations[s] = db.allocations[s]
                /\ ui'[s].driverAllocations[s] = ui[s].driverAllocations[s]]_vars

(***************************************************************************)
(* Properties of the stock.                                                *)
(***************************************************************************)
\* C30: the stock the store holds for a product is never below 0, whatever finalizes
\* the sessions run and however their requests interleave, also when the delivered
\* order names a product on more than one line.
C30_StockNotNegative ==
    \A p \in Products : db.stock[p] >= 0

\* C30 happens: both users have delivered the order that names P1 on two lines of
\* one unit each, the warehouse having had one unit: every update of the stock has
\* been answered, and the stock of P1 is 0
C30_Witness ==
    /\ \A s \in Sessions :
          /\ ui[s].run = NoRun
          /\ ViewOpen(ui[s]) /\ ui[s].viewingOrder.status = Delivered
    /\ last.op = "handleConfirmFinalize"
    /\ Len(db.orders[1].orderItems) = 2
    /\ PidsOf(db.orders[1].orderItems) = {"P1"}
    /\ db.orders[1].status = Delivered
    /\ db.stock = [p \in Products |-> IF p = "P1" THEN 0 ELSE 1]

====
